---- MODULE Spec2Model ----
(***************************************************************************)
(* Model of ledger-go: the journal parser (New / parseEntry), the FIFO lot *)
(* registry (AddLot / DisposeFIFO), lot extraction (extractLots) and the   *)
(* portfolio (Snapshot, PeriodReturns, BuildTimeSeries).                   *)
(*                                                                         *)
(* Numbers.  Amounts, total ("@@") price amounts and cost bases are        *)
(* integers counting thousandths (0.001), so that 5 stands for 0.005;      *)
(* per-unit ("@") prices are whole numbers.  Values the code obtains by    *)
(* division (CostPerUnit, proceedsPerUnit, Proceeds, RealizedGain) are     *)
(* exact rationals <<numerator, denominator>> in lowest terms.  float64    *)
(* rounding and NaN are not modelled; the one division whose divisor can   *)
(* be 0, in PeriodReturns, yields <<1, 0>> or <<-1, 0>> for +Inf and -Inf. *)
(* Dates are day numbers; in the portfolio specification they are instants *)
(* counted in ticks.  A pointer to a Lot is an index into `lots`.          *)
(***************************************************************************)
EXTENDS Integers, Sequences, FiniteSets, TLC

\* ---------------------------------------------------------------- bounds
MaxDate == 2
MaxQty == 2
MaxLots == 3
MaxDisposals == 2
MaxLines == 4
MaxAccounts == 3
MaxPoints == 3

CommodityNames == {"BTC", "ETH"}
Dates == 1..MaxDate
CostBases == {3}
ProceedsSet == {5}
DisposalDates == {MaxDate}

\* ------------------------------------------------------- exact rationals
Abs(n) == IF n < 0 THEN -n ELSE n

RECURSIVE GCD(_, _)
GCD(a, b) == IF b = 0 THEN a ELSE GCD(b, a % b)

\* n/d in lowest terms with a positive denominator (d # 0)
Rat(n, d) ==
  LET g == GCD(Abs(n), Abs(d))
      s == IF d < 0 THEN -1 ELSE 1
  IN  <<(s * n) \div g, (s * d) \div g>>

RInt(n) == <<n, 1>>
RAdd(x, y) == Rat(x[1] * y[2] + y[1] * x[2], x[2] * y[2])
RSub(x, y) == Rat(x[1] * y[2] - y[1] * x[2], x[2] * y[2])
RMul(x, y) == Rat(x[1] * y[1], x[2] * y[2])
RDiv(x, y) == Rat(x[1] * y[2], x[2] * y[1])
RLess(x, y) == x[1] * y[2] < y[1] * x[2]

\* ------------------------------------------------------------------ state
VARIABLES
  lots,             \* the Lot objects ever created, by pointer (index)
  LotsByCommodity,  \* LotRegistry.LotsByCommodity: commodity -> <<pointers>>
  Disposals,        \* LotRegistry.Disposals
  call,             \* the last registry call with its arguments and result
  cfg,              \* Config passed to New
  pc,               \* where New is: "New", "parseEntry", "extractLots",
                    \* "done" (ledger returned) or "error" (nil, err returned);
                    \* "portfolio" after Ledger.Portfolio() returned one,
                    \* "noPortfolio" after it returned an error;
                    \* "validateBalance" before a direct call of it
  state,            \* New: the parse state
  ln,               \* New: number of lines read
  lastLine,         \* New, parseEntry: the line read last (scanner.Text())
  previousDate,     \* New: effective date of the last entry header accepted
  HeaderComments,   \* Ledger.HeaderComments
  Commodities,      \* Ledger.Commodities
  Accounts,         \* Ledger.Accounts
  Tags,             \* Ledger.Tags
  Prices,           \* Ledger.Prices (PriceHistory.Prices)
  Entries,          \* Ledger.Entries
  e,                \* parseEntry: the entry being read
  metadataMode,     \* parseEntry: a metadata line was read
  startLine,        \* parseEntry: the line of the entry's header
  pos,              \* extractLots: <<entry index, account index>> to do next
  Snapshots,        \* Portfolio.Snapshots: day key -> snapshot
  CashFlows,        \* Portfolio.CashFlows
  err               \* the error returned: its message ("" if none) and the
                    \* line and name the message of a balance error holds

regVars == <<lots, LotsByCommodity, Disposals, call>>
declVars == <<HeaderComments, Commodities, Accounts, Tags, Prices>>
newVars == <<cfg, pc, state, ln, lastLine, previousDate, HeaderComments, Commodities,
             Accounts, Tags, Prices, Entries, e, metadataMode, startLine, pos,
             Snapshots, CashFlows, err>>
vars == <<lots, LotsByCommodity, Disposals, call, cfg, pc, state, ln,
          lastLine, previousDate, HeaderComments, Commodities, Accounts, Tags, Prices,
          Entries, e, metadataMode, startLine, pos, Snapshots, CashFlows,
          err>>
portVars == <<Snapshots, CashFlows>>

NoCall == [op |-> "none"]

\* NewLotRegistry
NewLotRegistry ==
  /\ lots = <<>>
  /\ LotsByCommodity = [c \in CommodityNames |-> <<>>]
  /\ Disposals = <<>>

\* ------------------------------------------------------------ the registry
\* The Lot value built by a caller (extractLots, the tests): remaining =
\* original, CostPerUnit = CostBasis / OriginalQuantity.
Lot(c, date, qty, cost) ==
  [Commodity |-> c, AcquisitionDate |-> date, OriginalQuantity |-> qty,
   RemainingQuantity |-> qty, CostBasis |-> cost,
   CostPerUnit |-> Rat(cost, qty)]

Range(s) == {s[i] : i \in DOMAIN s}

\* s is ordered as sort.Slice with less = AcquisitionDate.Before leaves it
SortedByDate(L, s) ==
  \A i, j \in DOMAIN s : i < j => L[s[i]].AcquisitionDate <= L[s[j]].AcquisitionDate

\* mutant: the list is not sorted after the append
SortSlice_NoSort(L, S) ==
  {s \in [1..Cardinality(S) -> S] : Range(s) = S}

\* The orders sort.Slice may produce for the pointers in S: every permutation
\* that is sorted by date (sort.Slice is not stable, ties may come out in any
\* order).
SortSlice(L, S) ==
  {s \in [1..Cardinality(S) -> S] : Range(s) = S /\ SortedByDate(L, s)}

\* RemainingQuantity over an explicit heap and list
RECURSIVE SumRemaining(_, _)
SumRemaining(L, s) ==
  IF s = <<>> THEN 0
  ELSE L[Head(s)].RemainingQuantity + SumRemaining(L, Tail(s))

RemainingQuantity(c) == SumRemaining(lots, LotsByCommodity[c])

\* LotRegistry.AddLot
AddLot(lot) ==
  /\ LET p == Len(lots) + 1
         L == Append(lots, lot)
     IN  /\ lots' = L
         /\ \E s \in SortSlice(L, Range(LotsByCommodity[lot.Commodity]) \cup {p}) :
              LotsByCommodity' = [LotsByCommodity EXCEPT ![lot.Commodity] = s]
  /\ UNCHANGED Disposals
  /\ call' = [op |-> "AddLot", lot |-> Len(lots) + 1]

\* mutant: the check against the remaining quantity is missing
DisposeRejected_NoRemainingCheck(quantity, remaining) ==
  quantity <= 0

\* mutant: a commodity with nothing remaining is not checked
DisposeRejected_SkipEmpty(quantity, remaining) ==
  quantity <= 0 \/ (remaining > 0 /\ quantity > remaining)

\* DisposeFIFO, lines 68-75: the two checks that reject a disposal
DisposeRejected(quantity, remaining) ==
  quantity <= 0 \/ quantity > remaining

\* mutant: the total proceeds are not divided by the quantity
ProceedsPerUnit_Undivided(totalProceeds, quantity) ==
  RInt(totalProceeds)

\* DisposeFIFO, line 79
ProceedsPerUnit(totalProceeds, quantity) ==
  RDiv(RInt(totalProceeds), RInt(quantity))

\* mutant: the whole lot is taken, not capped by what is still needed
DisposeFromLot_WholeLot(lotRemaining, quantityToDispose) ==
  lotRemaining

\* DisposeFIFO, lines 90-93: how much to take from one lot
DisposeFromLot(lotRemaining, quantityToDispose) ==
  IF lotRemaining > quantityToDispose THEN quantityToDispose ELSE lotRemaining

\* DisposeFIFO, line 96
LotProceeds(disposeFromLot, proceedsPerUnit) ==
  RMul(RInt(disposeFromLot), proceedsPerUnit)

\* mutant: the cost is the cost of one unit, not of the quantity disposed
LotRealizedGain_UnitCost(proceeds, disposeFromLot, costPerUnit) ==
  RSub(proceeds, costPerUnit)

\* DisposeFIFO, lines 97-98
LotRealizedGain(proceeds, disposeFromLot, costPerUnit) ==
  RSub(proceeds, RMul(RInt(disposeFromLot), costPerUnit))

\* mutant: the quantity disposed is added to the lot
ReduceLot_Add(lotRemaining, disposeFromLot) ==
  lotRemaining + disposeFromLot

\* DisposeFIFO, line 112
ReduceLot(lotRemaining, disposeFromLot) ==
  lotRemaining - disposeFromLot

\* mutant: no lot is skipped
Exhausted_Never(lot) == FALSE

\* DisposeFIFO, lines 85-87: a lot nothing remains of is skipped
Exhausted(lot) == lot.RemainingQuantity <= 0

\* DisposeFIFO, lines 81-114: the loop over the commodity's lots, oldest
\* first.  L is the heap, s the rest of the list, out the records so far.
RECURSIVE DisposeLoop(_, _, _, _, _, _)
DisposeLoop(L, s, quantityToDispose, proceedsPerUnit, disposalDate, out) ==
  IF s = <<>> \/ quantityToDispose <= 0
  THEN [lots |-> L, disposals |-> out]
  ELSE
    LET p == Head(s)
        lot == L[p]
    IN  IF Exhausted(lot)
        THEN DisposeLoop(L, Tail(s), quantityToDispose, proceedsPerUnit,
                         disposalDate, out)
        ELSE
          LET disposeFromLot ==
                DisposeFromLot(lot.RemainingQuantity, quantityToDispose)
              proceeds == LotProceeds(disposeFromLot, proceedsPerUnit)
              disposal ==
                [Lot |-> p, DisposalDate |-> disposalDate,
                 QuantityDisposed |-> disposeFromLot, Proceeds |-> proceeds,
                 RealizedGain |->
                   LotRealizedGain(proceeds, disposeFromLot, lot.CostPerUnit)]
              L2 == [L EXCEPT ![p].RemainingQuantity = ReduceLot(@, disposeFromLot)]
          IN  DisposeLoop(L2, Tail(s), quantityToDispose - disposeFromLot,
                          proceedsPerUnit, disposalDate, Append(out, disposal))

\* mutant: the new records are put in front of the list
AppendDisposals_InFront(disp, records) == records \o disp

\* DisposeFIFO, line 109: the records of a call, appended one by one
AppendDisposals(disp, records) == disp \o records

\* LotRegistry.DisposeFIFO as a function of the registry: the error flag,
\* the returned records and the registry afterwards.
DisposeFIFOResult(L, lists, disp, commodity, quantity, disposalDate, totalProceeds) ==
  IF DisposeRejected(quantity, SumRemaining(L, lists[commodity]))
  THEN [err |-> TRUE, disposals |-> <<>>, lots |-> L, Disposals |-> disp]
  ELSE
    LET r == DisposeLoop(L, lists[commodity], quantity,
                         ProceedsPerUnit(totalProceeds, quantity),
                         disposalDate, <<>>)
    IN  [err |-> FALSE, disposals |-> r.disposals, lots |-> r.lots,
         Disposals |-> AppendDisposals(disp, r.disposals)]

\* LotRegistry.DisposeFIFO called on the registry
DisposeFIFO(commodity, quantity, disposalDate, totalProceeds) ==
  LET r == DisposeFIFOResult(lots, LotsByCommodity, Disposals, commodity,
                             quantity, disposalDate, totalProceeds)
  IN  /\ lots' = r.lots
      /\ Disposals' = r.Disposals
      /\ UNCHANGED LotsByCommodity
      /\ call' = [op |-> "DisposeFIFO", commodity |-> commodity,
                  quantity |-> quantity, disposalDate |-> disposalDate,
                  totalProceeds |-> totalProceeds, err |-> r.err,
                  disposals |-> r.disposals,
                  lotsBefore |-> lots, DisposalsBefore |-> Disposals]

\* ------------------------------------------------------------ the journal
\* Times.  Entry dates are the days in Dates; Epoch is time.Unix(0, 0), the
\* start value of previousDate, and ZeroTime the zero time.Time.
Epoch == 0
ZeroTime == -1

\* Account names are the lists of their ":"-separated parts.
AssetBTC == <<"Assets", "Crypto", "BTC">>
Bank == <<"Assets", "Bank">>
AccountNames == {AssetBTC, Bank}
AssetPrefix == <<"Assets", "Crypto">>

\* strings.HasPrefix on names and prefixes that end at a ":"
HasPrefix(name, prefix) ==
  Len(prefix) <= Len(name) /\ SubSeq(name, 1, Len(prefix)) = prefix

\* The files the metadata checks find on disk: the files that exist, their
\* SHA-256 sums, and the PDFs below the invoices directory.
FileHash == ("invoices/a.pdf" :> "ha")
ExistingFiles == DOMAIN FileHash
PDFNames == {"invoices/a.pdf"}
InvoicePDFs == {"invoices/a.pdf"}

\* ----------------------------------------------------------------- lines
\* A line of the journal, by what the parser tells apart: the prefix it is
\* recognised by (kind) and the fields it splits into.
Blank == [kind |-> "blank"]
Comment == [kind |-> "comment"]
CommodityLine(c) == [kind |-> "commodity", value |-> c]
AccountLine(a) == [kind |-> "account", value |-> a]
TagLine(t) == [kind |-> "tag", value |-> t]
\* "P DATE COMMODITY PRICE PRICECOMMODITY"
PriceLine(n, dateOK, date, c, priceOK, price, pcom) ==
  [kind |-> "P", fields |-> n, dateOK |-> dateOK, date |-> date,
   commodity |-> c, priceOK |-> priceOK, price |-> price,
   priceCommodity |-> pcom]
\* "DATE name" or "DATE=EFFECTIVE name"
Header(dateOK, date, hasEff, effOK, eff) ==
  [kind |-> "header", dateOK |-> dateOK, date |-> date, hasEff |-> hasEff,
   effOK |-> effOK, effective |-> eff]
\* an indented account line of n fields
Posting(n, name, amountOK, amount, c, ptype, priceOK, price, pcom) ==
  [kind |-> "posting", fields |-> n, Name |-> name, amountOK |-> amountOK,
   Amount |-> amount, Commodity |-> c, PriceType |-> ptype,
   priceOK |-> priceOK, PriceAmount |-> price, PriceCommodity |-> pcom]
\* an indented "; tag: value" line, parts = number of ":"-separated parts
MetaLine(parts, tag, value) ==
  [kind |-> "meta", parts |-> parts, tag |-> tag, value |-> value]

ElidedPosting(name) == Posting(1, name, TRUE, 0, "", "", TRUE, 0, "")
PlainPosting(name, amount, c) == Posting(3, name, TRUE, amount, c, "", TRUE, 0, "")
PricedPosting(name, amount, c, ptype, price, pcom) ==
  Posting(6, name, TRUE, amount, c, ptype, TRUE, price, pcom)

DeclLines ==
  {CommodityLine(c) : c \in {"BTC", "USD"}}
    \cup {AccountLine(a) : a \in AccountNames}
    \cup {TagLine("t")}
PriceLines ==
  {PriceLine(5, TRUE, d, "BTC", TRUE, 3, "USD") : d \in Dates}
    \cup {PriceLine(4, TRUE, 1, "BTC", TRUE, 3, "USD")}
HeaderLines ==
  {Header(TRUE, d, FALSE, TRUE, ZeroTime) : d \in Dates}
    \cup {Header(TRUE, df[1], TRUE, TRUE, df[2]) :
            df \in {x \in Dates \X Dates : x[1] # x[2]}}
    \cup {Header(FALSE, 1, FALSE, TRUE, ZeroTime)}
PostingLines ==
  {ElidedPosting(Bank)}
    \cup {PlainPosting(Bank, a, "USD") : a \in {-2, 2, 3}}
    \cup {PricedPosting(AssetBTC, a, "BTC", t, 3, "USD") :
            a \in (-MaxQty..MaxQty) \ {0}, t \in {"@", "@@"}}
    \cup {PricedPosting(Bank, 1, "BTC", "@@", 3, "USD")}
    \cup {Posting(2, Bank, TRUE, 0, "", "", TRUE, 0, "")}
MetaLines ==
  {MetaLine(2, "file", "invoices/a.pdf"), MetaLine(2, "sha256", "ha"),
   MetaLine(2, "duplicate", "true"), MetaLine(1, "", "")}

Lines ==
  {Blank, Comment} \cup DeclLines \cup PriceLines \cup HeaderLines
    \cup PostingLines \cup MetaLines

\* ------------------------------------------------------------ parse states
parseHeaderComments == 0
parseCommodities == 1
parseAccounts == 2
parseTags == 3
parsePrices == 4
parseEntries == 5

\* mutant: leaving the price section starts over at the commodity section
Leave_StartOver(s) ==
  IF s = parsePrices THEN parseCommodities ELSE s + 1

\* mutant: past the header comments a line that does not match leaves the
\* state as it is
Leave_Stay(s) == IF s = parseHeaderComments THEN s + 1 ELSE s

\* New, lines 631, 639, 647, 655, 665: the state assigned when a line does
\* not match the pattern of state s
Leave(s) == s + 1

\* New, lines 626-673: what the state checks of one loop iteration do with a
\* non-empty line: the state afterwards and the branch taken.
Cascade(line, st) ==
  LET k == line.kind IN
  IF st = parseHeaderComments /\ k = "comment"
  THEN [state |-> st, act |-> "headerComment"]
  ELSE
  LET s1 == IF st = parseHeaderComments THEN Leave(st) ELSE st IN
  IF s1 = parseCommodities /\ k = "commodity"
  THEN [state |-> s1, act |-> "commodity"]
  ELSE
  LET s2 == IF s1 = parseCommodities THEN Leave(s1) ELSE s1 IN
  IF s2 = parseAccounts /\ k = "account"
  THEN [state |-> s2, act |-> "account"]
  ELSE
  LET s3 == IF s2 = parseAccounts THEN Leave(s2) ELSE s2 IN
  IF s3 = parseTags /\ k = "tag"
  THEN [state |-> s3, act |-> "tag"]
  ELSE
  LET s4 == IF s3 = parseTags THEN Leave(s3) ELSE s3 IN
  IF s4 = parsePrices /\ k = "P"
  THEN [state |-> s4, act |-> "price"]
  ELSE
  LET s5 == IF s4 = parsePrices THEN Leave(s4) ELSE s4 IN
  IF s5 = parsePrices \/ s5 = parseEntries
  THEN [state |-> s5, act |-> IF k = "comment" THEN "skip" ELSE "entry"]
  ELSE [state |-> s5, act |-> "none"]

\* ---------------------------------------------------------- price history
\* mutant: the points are left in any order
SortPoints_NoSort(ps) ==
  LET perms == {f \in [DOMAIN ps -> DOMAIN ps] : Range(f) = DOMAIN ps}
  IN  {[i \in DOMAIN ps |-> ps[f[i]]] : f \in perms}

\* sort.Slice of AddPrice: the point lists that hold the points of ps in an
\* order ascending by date (ties in any order)
SortPoints(ps) ==
  LET perms == {f \in [DOMAIN ps -> DOMAIN ps] : Range(f) = DOMAIN ps}
      sorted == {[i \in DOMAIN ps |-> ps[f[i]]] : f \in perms}
  IN  {q \in sorted : \A i, j \in DOMAIN q : i < j => q[i].Date <= q[j].Date}

\* PriceHistory.AddPrice: the histories it may leave
AddPrice(h, commodity, date, price) ==
  LET point == [Date |-> date, Commodity |-> commodity, Price |-> price]
  IN  {[h EXCEPT ![commodity] = q] : q \in SortPoints(Append(h[commodity], point))}

\* mutant: a point of the queried date counts as later
DateAfter_OrEqual(point, date) == point.Date >= date

\* GetPrice, line 837: prices[i].Date.After(date)
DateAfter(point, date) == point.Date > date

\* sort.Search(n, f) with f(i) = prices[i].Date.After(date): the binary search
\* between the 0-based indices i and j
RECURSIVE SortSearch(_, _, _, _)
SortSearch(prices, date, i, j) ==
  IF i >= j THEN i
  ELSE LET h == (i + j) \div 2
       IN  IF ~DateAfter(prices[h + 1], date)
           THEN SortSearch(prices, date, h + 1, j)
           ELSE SortSearch(prices, date, i, h)

\* PriceHistory.GetPrice
GetPrice(h, commodity, date) ==
  LET prices == h[commodity]
      idx == SortSearch(prices, date, 0, Len(prices))
  IN  IF Len(prices) = 0
        THEN [err |-> "no price history for commodity", price |-> 0]
      ELSE IF idx = 0
        THEN [err |-> "no price available on or before", price |-> 0]
      ELSE [err |-> "", price |-> prices[idx].Price]

\* Ledger.parsePriceDirective up to the call of AddPrice: the error, if any
parsePriceDirective(line, strict, commodities) ==
  IF line.fields # 5 THEN "invalid price directive format"
  ELSE IF ~line.dateOK THEN "invalid date in price directive"
  ELSE IF strict /\ line.commodity \notin commodities
    THEN "unknown commodity in price directive"
  ELSE IF strict /\ line.priceCommodity \notin commodities
    THEN "unknown price commodity in price directive"
  ELSE IF ~line.priceOK THEN "invalid price in price directive"
  ELSE ""

\* ----------------------------------------------------------------- entries
NewAccount ==
  [Name |-> <<>>, Amount |-> 0, Commodity |-> "", PriceType |-> "",
   PriceAmount |-> 0, PriceCommodity |-> "", Elided |-> FALSE]

NewEntry ==
  [LineNumber |-> 0, Date |-> ZeroTime, EffectiveDate |-> ZeroTime,
   Accounts |-> <<>>, Metadata |-> <<>>]

\* parseAccount
parseAccount(line, strict, commodities, accounts) ==
  LET n == line.fields
      a1 == [NewAccount EXCEPT !.Name = line.Name]
      a3 == [a1 EXCEPT !.Amount = line.Amount, !.Commodity = line.Commodity]
      a6 == [a3 EXCEPT !.PriceType = line.PriceType,
                       !.PriceAmount = line.PriceAmount,
                       !.PriceCommodity = line.PriceCommodity]
  IN
  IF n # 1 /\ n # 3 /\ n # 6
    THEN [err |-> "invalid account format", a |-> NewAccount]
  ELSE IF strict /\ line.Name \notin accounts
    THEN [err |-> "account unknown", a |-> NewAccount]
  ELSE IF n >= 3 /\ ~line.amountOK
    THEN [err |-> "invalid amount", a |-> a1]
  ELSE IF n >= 3 /\ strict /\ line.Commodity \notin commodities
    THEN [err |-> "commodity unknown", a |-> a1]
  ELSE IF n = 6 /\ line.PriceType # "@" /\ line.PriceType # "@@"
    THEN [err |-> "invalid price annotation", a |-> a3]
  ELSE IF n = 6 /\ ~line.priceOK
    THEN [err |-> "invalid price amount", a |-> a3]
  ELSE IF n = 6 /\ strict /\ line.PriceCommodity \notin commodities
    THEN [err |-> "price commodity unknown", a |-> a3]
  ELSE [err |-> "", a |-> IF n = 6 THEN a6 ELSE IF n = 3 THEN a3 ELSE a1]

\* LedgerAccount.balanceAmount
balanceAmount(a) ==
  IF a.PriceType = "" THEN <<a.Amount, a.Commodity>>
  ELSE IF a.PriceType = "@" THEN <<a.Amount * a.PriceAmount, a.PriceCommodity>>
  ELSE IF a.Amount < 0 THEN <<-a.PriceAmount, a.PriceCommodity>>
  ELSE <<a.PriceAmount, a.PriceCommodity>>

\* 0.005, in thousandths
balanceEpsilon == 5

\* validateBalance, lines 113-120: sums[c], skipping the elided account
RECURSIVE SumFor(_, _, _, _)
SumFor(A, i, elidedIdx, c) ==
  IF i > Len(A) THEN 0
  ELSE (IF i # elidedIdx /\ balanceAmount(A[i])[2] = c
        THEN balanceAmount(A[i])[1] ELSE 0)
       + SumFor(A, i + 1, elidedIdx, c)

\* mutant: the elided account gets the sum of the others
ElidedAmount_Sum(sum) == sum

\* validateBalance, line 130: the amount given to the elided account
ElidedAmount(sum) == -sum

\* mutant: two elided accounts pass
MultipleElided_MoreThanTwo(elided) == Cardinality(elided) > 2

\* validateBalance, lines 104-107: a second elided account is found
MultipleElided(elided) == Cardinality(elided) > 1

\* mutant: the first of several commodities is taken for the elided account
SingleCommodity_Any(keys) == Cardinality(keys) >= 1

\* validateBalance, line 127: len(sums) == 1
SingleCommodity(keys) == Cardinality(keys) = 1

\* mutant: sums in several commodities are checked as well
MultipleCommodities_Never(keys) == FALSE

\* validateBalance, line 146: len(sums) > 1
MultipleCommodities(keys) == Cardinality(keys) > 1

\* mutant: a sum below -0.005 passes
Unbalanced_AboveOnly(sum) == sum > balanceEpsilon

\* validateBalance, line 152
Unbalanced(sum) == sum < -balanceEpsilon \/ sum > balanceEpsilon

\* LedgerEntry.validateBalance: the error, if any, and the entry afterwards
validateBalance(en, start) ==
  LET A == en.Accounts
      Ok(en2) == [err |-> "", line |-> 0, name |-> "", e |-> en2]
      Error(msg, c) == [err |-> msg, line |-> start, name |-> c, e |-> en]
      elided == {i \in DOMAIN A : A[i].Commodity = ""}
      elidedIdx == IF elided = {} THEN 0 ELSE CHOOSE i \in elided : TRUE
      others == DOMAIN A \ {elidedIdx}
      keys == {balanceAmount(A[i])[2] : i \in others}
      sums == [c \in keys |-> SumFor(A, 1, elidedIdx, c)]
  IN
  IF MultipleElided(elided)
    THEN Error("multiple accounts with elided amounts", "")
  ELSE IF elidedIdx > 0
    THEN IF Cardinality(keys) = 0
           THEN Error("cannot infer elided amount without other amounts", "")
         ELSE IF SingleCommodity(keys)
           THEN LET c == CHOOSE k \in keys : TRUE
                IN  Ok([en EXCEPT !.Accounts[elidedIdx].Amount =
                                     ElidedAmount(sums[c]),
                                  !.Accounts[elidedIdx].Commodity = c,
                                  !.Accounts[elidedIdx].Elided = TRUE])
         ELSE Ok([en EXCEPT !.Accounts[elidedIdx].Elided = TRUE])
  ELSE IF MultipleCommodities(keys) THEN Ok(en)
  ELSE IF \E c \in keys : Unbalanced(sums[c])
    THEN Error("entry not balanced",
               CHOOSE c \in keys : Unbalanced(sums[c]))
  ELSE Ok(en)

\* LedgerEntry.parseMetadata
parseMetadata(en, line) ==
  IF line.parts # 2 THEN [err |-> "not metadata", e |-> en]
  ELSE IF line.tag \in DOMAIN en.Metadata
    THEN [err |-> "metadata tag already exists", e |-> en]
  ELSE [err |-> "", e |-> [en EXCEPT !.Metadata = (line.tag :> line.value) @@ @]]

\* e.Metadata[key], "" when the key is absent
Meta(en, key) == IF key \in DOMAIN en.Metadata THEN en.Metadata[key] ELSE ""

\* procFilename
procFilename(filename) ==
  IF filename \notin ExistingFiles THEN "file doesn't exist"
  ELSE IF filename \notin PDFNames THEN "file is not a PDF"
  ELSE ""

\* LedgerEntry.procHash
procHash(en, metadataKey, filename, strict, addMissingHashes) ==
  IF metadataKey \in DOMAIN en.Metadata
  THEN IF strict
       THEN IF filename \notin ExistingFiles
              THEN [err |-> "cannot read file", e |-> en]
            ELSE IF FileHash[filename] # en.Metadata[metadataKey]
              THEN [err |-> "hash mismatch for file", e |-> en]
            ELSE [err |-> "", e |-> en]
       ELSE [err |-> "", e |-> en]
  ELSE IF addMissingHashes
       THEN IF filename \notin ExistingFiles
              THEN [err |-> "cannot read file", e |-> en]
            ELSE [err |-> "",
                  e |-> [en EXCEPT !.Metadata =
                           (metadataKey :> FileHash[filename]) @@ @]]
  ELSE IF strict THEN [err |-> "no hash for file", e |-> en]
  ELSE [err |-> "", e |-> en]

\* LedgerEntry.procMetadata (the warnings it prints are not part of the model)
procMetadata(en, strict, addMissingHashes) ==
  IF en.Metadata = <<>> THEN [err |-> "", e |-> en]
  ELSE
    LET hasFile == "file" \in DOMAIN en.Metadata
        hasTwo == "fileTwo" \in DOMAIN en.Metadata
        filename == Meta(en, "file")
        filenameTwo == Meta(en, "fileTwo")
    IN
    IF hasFile /\ procFilename(filename) # ""
      THEN [err |-> procFilename(filename), e |-> en]
    ELSE IF hasTwo /\ ~hasFile
      THEN [err |-> "'fileTwo' defined but not 'file'", e |-> en]
    ELSE IF hasTwo /\ procFilename(filenameTwo) # ""
      THEN [err |-> procFilename(filenameTwo), e |-> en]
    ELSE
      LET h1 == procHash(en, "sha256", filename, strict, addMissingHashes)
      IN  IF h1.err # "" THEN h1
          ELSE IF filenameTwo # ""
            THEN procHash(h1.e, "sha256Two", filenameTwo, strict,
                          addMissingHashes)
          ELSE h1

\* validateSubtree
validateSubtree(seenFiles) ==
  IF seenFiles \ InvoicePDFs # {}
  THEN "file referenced in ledger but not found in filesystem"
  ELSE ""

\* Ledger.validateMetadata, lines 752-809: the loop over the entries from
\* entry i on, with the files and hashes seen so far
RECURSIVE validateMetadataLoop(_, _, _, _)
validateMetadataLoop(E, i, seenFiles, seenHashes) ==
  IF i > Len(E) THEN validateSubtree(seenFiles)
  ELSE
    LET en == E[i]
        f1 == Meta(en, "file")
        f2 == Meta(en, "fileTwo")
    IN
    IF f1 = "" \/ Meta(en, "duplicate") = "true"
      THEN validateMetadataLoop(E, i + 1, seenFiles, seenHashes)
    ELSE IF f1 \in seenFiles THEN "duplicate file"
    ELSE IF "sha256" \notin DOMAIN en.Metadata /\ f1 \notin ExistingFiles
      THEN "failed to calculate SHA256 hash"
    ELSE
      LET hash1 == IF "sha256" \in DOMAIN en.Metadata
                   THEN en.Metadata["sha256"] ELSE FileHash[f1]
          sf1 == seenFiles \cup {f1}
          sh1 == seenHashes \cup {hash1}
      IN
      IF hash1 \in seenHashes THEN "duplicate hash"
      ELSE IF f2 = "" THEN validateMetadataLoop(E, i + 1, sf1, sh1)
      ELSE IF f2 \in sf1 THEN "duplicate file"
      ELSE IF "sha256Two" \notin DOMAIN en.Metadata /\ f2 \notin ExistingFiles
        THEN "failed to calculate SHA256 hash"
      ELSE
        LET hash2 == IF "sha256Two" \in DOMAIN en.Metadata
                     THEN en.Metadata["sha256Two"] ELSE FileHash[f2]
        IN  IF hash2 \in sh1 THEN "duplicate hash"
            ELSE validateMetadataLoop(E, i + 1, sf1 \cup {f2},
                                      sh1 \cup {hash2})

\* Ledger.validateMetadata
validateMetadata(strict, E) ==
  IF ~strict THEN "" ELSE validateMetadataLoop(E, 1, {}, {})

\* mutant: the accounting date is compared even when an effective date is given
CurrentDate_Accounting(en) == en.Date

\* parseEntry, lines 466-471 and 476-480: the date an entry is ordered by
CurrentDate(en) ==
  IF en.EffectiveDate = ZeroTime THEN en.Date ELSE en.EffectiveDate

\* mutant: no date counts as before the previous one
BeforePrevious_Never(currentDate, prev) == FALSE

\* parseEntry, line 472
BeforePrevious(currentDate, prev) == currentDate < prev

\* parseEntry, lines 437-480: the header line.  A line that is not an entry
\* header does not start with a date and fails time.Parse.
parseEntryHeader(line, prev) ==
  IF line.kind # "header" \/ ~line.dateOK
    THEN [err |-> "cannot parse date", e |-> NewEntry, previousDate |-> prev]
  ELSE IF line.hasEff /\ ~line.effOK
    THEN [err |-> "cannot parse date", e |-> NewEntry, previousDate |-> prev]
  ELSE
    LET en == [NewEntry EXCEPT
                 !.Date = line.date,
                 !.EffectiveDate = IF line.hasEff THEN line.effective
                                   ELSE ZeroTime]
        currentDate == CurrentDate(en)
    IN  IF BeforePrevious(currentDate, prev)
          THEN [err |-> "date is before previous date", e |-> en,
                previousDate |-> prev]
        ELSE [err |-> "", e |-> en, previousDate |-> currentDate]

\* ------------------------------------------------------------------- New
NoError == [msg |-> "", line |-> 0, name |-> ""]

Configs ==
  [Strict : BOOLEAN, AddMissingHashes : {FALSE}, DisableMetadata : BOOLEAN,
   AssetAccounts : {<<>>, <<AssetPrefix>>}]

\* New, lines 600-618: the state before the first line is read
NewStart(c) ==
  /\ cfg = c
  /\ pc = "New"
  /\ state = parseHeaderComments
  /\ ln = 0
  /\ lastLine = Blank
  /\ previousDate = Epoch
  /\ HeaderComments = <<>>
  /\ Commodities = {}
  /\ Accounts = {}
  /\ Tags = {}
  /\ Prices = [c2 \in CommodityNames |-> <<>>]
  /\ Entries = <<>>
  /\ e = NewEntry
  /\ metadataMode = FALSE
  /\ startLine = 0
  /\ pos = <<1, 1>>
  /\ Snapshots = <<>>
  /\ CashFlows = <<>>
  /\ err = NoError

\* New returns (nil, err), the message naming a line and a name
FailAt(msg, line, name) ==
  /\ pc' = "error"
  /\ err' = [msg |-> msg, line |-> line, name |-> name]

\* New returns (nil, err)
Fail(msg) == FailAt(msg, 0, "")

\* New, lines 682-699: after the last line.  Metadata is validated, then the
\* lots are extracted when asset accounts are configured.
AfterScan(E) ==
  LET verr == IF cfg.DisableMetadata THEN "" ELSE validateMetadata(cfg.Strict, E)
  IN  /\ pos' = <<1, 1>>
      /\ IF verr # "" THEN Fail(verr)
         ELSE /\ pc' = IF Len(cfg.AssetAccounts) > 0 THEN "extractLots" ELSE "done"
              /\ err' = err

\* New, lines 619-681: one iteration of the scan loop, on the next line
NewScan(line, limit) ==
  /\ pc = "New"
  /\ ln < limit
  /\ ln' = ln + 1
  /\ lastLine' = line
  /\ UNCHANGED <<cfg, regVars, Entries, pos>>
  /\ UNCHANGED portVars
  /\ LET c == IF line.kind = "blank" THEN [state |-> state, act |-> "none"]
              ELSE Cascade(line, state)
     IN
     /\ state' = c.state
     /\ CASE c.act = "headerComment" ->
               /\ HeaderComments' = Append(HeaderComments, line)
               /\ UNCHANGED <<pc, err, Commodities, Accounts, Tags, Prices,
                              previousDate, e, metadataMode, startLine>>
          [] c.act = "commodity" ->
               /\ Commodities' = Commodities \cup {line.value}
               /\ UNCHANGED <<pc, err, HeaderComments, Accounts, Tags, Prices,
                              previousDate, e, metadataMode, startLine>>
          [] c.act = "account" ->
               /\ Accounts' = Accounts \cup {line.value}
               /\ UNCHANGED <<pc, err, HeaderComments, Commodities, Tags,
                              Prices, previousDate, e, metadataMode, startLine>>
          [] c.act = "tag" ->
               /\ Tags' = Tags \cup {line.value}
               /\ UNCHANGED <<pc, err, HeaderComments, Commodities, Accounts,
                              Prices, previousDate, e, metadataMode, startLine>>
          [] c.act = "price" ->
               LET perr == parsePriceDirective(line, cfg.Strict, Commodities)
               IN  /\ IF perr # ""
                      THEN Fail(perr) /\ UNCHANGED Prices
                      ELSE /\ \E h \in AddPrice(Prices, line.commodity,
                                                line.date, line.price) :
                                Prices' = h
                           /\ UNCHANGED <<pc, err>>
                   /\ UNCHANGED <<HeaderComments, Commodities, Accounts, Tags,
                                  previousDate, e, metadataMode, startLine>>
          [] c.act = "entry" ->
               LET h == parseEntryHeader(line, previousDate)
               IN  /\ IF h.err # ""
                      THEN Fail(h.err) /\ UNCHANGED <<previousDate, e, startLine>>
                      ELSE /\ pc' = "parseEntry"
                           /\ e' = h.e
                           /\ previousDate' = h.previousDate
                           /\ startLine' = ln'
                           /\ UNCHANGED err
                   /\ metadataMode' = FALSE
                   /\ UNCHANGED declVars
          [] OTHER ->
               UNCHANGED <<pc, err, declVars, previousDate, e, metadataMode,
                           startLine>>

\* New's scan loop on a journal of at most MaxLines lines
NewScanLine(line) == NewScan(line, MaxLines)

\* New, line 619: the scanner has no more lines
NewEOF ==
  /\ pc = "New"
  /\ AfterScan(Entries)
  /\ UNCHANGED <<cfg, regVars, state, ln, lastLine, previousDate, declVars,
                 Entries, e, metadataMode, startLine>>
  /\ UNCHANGED portVars

\* mutant: account lines are taken after metadata lines
AlreadyParsingMetadata_Never(mode) == FALSE

\* parseEntry, line 515: an account line is refused in metadata mode
AlreadyParsingMetadata(mode) == mode

\* a line that starts with two spaces
Indented(line) == line.kind = "posting" \/ line.kind = "meta"

\* parseEntry, lines 484-523: one iteration of its scan loop
ParseEntry(line, limit) ==
  /\ pc = "parseEntry"
  /\ ln < limit
  /\ ln' = ln + 1
  /\ lastLine' = line
  /\ UNCHANGED <<cfg, regVars, state, previousDate, declVars, startLine, pos>>
  /\ UNCHANGED portVars
  /\ IF line.kind = "blank"
     THEN
       LET vb == validateBalance(e, startLine)
           pm == IF cfg.DisableMetadata THEN vb
                 ELSE procMetadata(vb.e, cfg.Strict, cfg.AddMissingHashes)
       IN  /\ IF vb.err # ""
              THEN FailAt(vb.err, vb.line, vb.name) /\ UNCHANGED Entries
              ELSE IF pm.err # "" THEN Fail(pm.err) /\ UNCHANGED Entries
              ELSE /\ Entries' = Append(Entries,
                                        [pm.e EXCEPT !.LineNumber = startLine])
                   /\ pc' = "New"
                   /\ UNCHANGED err
           /\ UNCHANGED <<e, metadataMode>>
     ELSE IF ~Indented(line)
     THEN Fail("not an account line") /\ UNCHANGED <<Entries, e, metadataMode>>
     ELSE IF line.kind = "meta"
     THEN
       LET m == parseMetadata(e, line)
       IN  /\ metadataMode' = TRUE
           /\ IF m.err # "" THEN Fail(m.err) /\ UNCHANGED e
              ELSE e' = m.e /\ UNCHANGED <<pc, err>>
           /\ UNCHANGED Entries
     ELSE IF AlreadyParsingMetadata(metadataMode)
     THEN Fail("already parsing metadata")
            /\ UNCHANGED <<Entries, e, metadataMode>>
     ELSE
       LET a == parseAccount(line, cfg.Strict, Commodities, Accounts)
       IN  /\ IF a.err # "" THEN Fail(a.err) /\ UNCHANGED e
              ELSE /\ e' = [e EXCEPT !.Accounts = Append(@, a.a)]
                   /\ UNCHANGED <<pc, err>>
           /\ UNCHANGED <<Entries, metadataMode>>

\* parseEntry's loop on a journal of at most MaxLines lines
ParseEntryLine(line) == ParseEntry(line, MaxLines)

\* parseEntry, lines 525-533, then New, lines 679-699: the file ends inside
\* an entry
ParseEntryEOF ==
  /\ pc = "parseEntry"
  /\ UNCHANGED <<cfg, regVars, state, ln, lastLine, previousDate, declVars, e,
                 metadataMode, startLine>>
  /\ UNCHANGED portVars
  /\ LET vb == validateBalance(e, startLine)
         E == Append(Entries, [vb.e EXCEPT !.LineNumber = startLine])
     IN  IF vb.err # ""
         THEN FailAt(vb.err, vb.line, vb.name) /\ UNCHANGED <<Entries, pos>>
         ELSE Entries' = E /\ AfterScan(E)

\* mutant: every account counts as an asset account
isAssetAccount_Any(accountName) == TRUE

\* Ledger.isAssetAccount
isAssetAccount(accountName) ==
  \E i \in DOMAIN cfg.AssetAccounts : HasPrefix(accountName, cfg.AssetAccounts[i])

\* mutant: the accounting date is used although an effective date is given
EntryDate_Accounting(en) == en.Date

\* extractLots, lines 834-837, and Portfolio, lines 899-902: the date used
\* for an entry
EntryDate(en) ==
  IF en.EffectiveDate # ZeroTime THEN en.EffectiveDate ELSE en.Date

\* mutant: the price amount is taken for the cost basis of "@" as well
CostBasisOf_Total(account) == account.PriceAmount

\* extractLots, lines 846-853
CostBasisOf(account) ==
  IF account.PriceType = "@" THEN account.Amount * account.PriceAmount
  ELSE account.PriceAmount

\* extractLots, lines 833 and 839: the next account at or after entry ei,
\* account ai; <<0, 0>> when the loops are over
RECURSIVE NextAccount(_, _, _)
NextAccount(E, ei, ai) ==
  IF ei > Len(E) THEN <<0, 0>>
  ELSE IF ai > Len(E[ei].Accounts) THEN NextAccount(E, ei + 1, 1)
  ELSE <<ei, ai>>

\* Ledger.extractLots: one iteration of the loop over the accounts, or the
\* return when the loops are over
ExtractLotsStep ==
  /\ pc = "extractLots"
  /\ UNCHANGED <<cfg, state, ln, lastLine, previousDate, declVars, Entries, e,
                 metadataMode, startLine>>
  /\ UNCHANGED portVars
  /\ LET p == NextAccount(Entries, pos[1], pos[2])
     IN
     IF p = <<0, 0>>
     THEN pc' = "done" /\ UNCHANGED <<regVars, pos, err>>
     ELSE
       LET entry == Entries[p[1]]
           account == entry.Accounts[p[2]]
           date == EntryDate(entry)
           costBasis == CostBasisOf(account)
       IN
       /\ pos' = <<p[1], p[2] + 1>>
       /\ IF ~isAssetAccount(account.Name) \/ account.PriceType = ""
          THEN UNCHANGED <<regVars, pc, err>>
          ELSE IF account.Amount > 0
          THEN /\ AddLot(Lot(account.Commodity, date, account.Amount, costBasis))
               /\ UNCHANGED <<pc, err>>
          ELSE IF account.Amount < 0
          THEN /\ DisposeFIFO(account.Commodity, -account.Amount, date,
                              -costBasis)
               /\ IF call'.err THEN Fail("insufficient quantity")
                  ELSE UNCHANGED <<pc, err>>
          ELSE UNCHANGED <<regVars, pc, err>>

\* mutant: the total price is taken unsigned for a sale as well
CashAmount_Unsigned(account) ==
  IF account.PriceType = "@" THEN account.Amount * account.PriceAmount
  ELSE account.PriceAmount

\* Portfolio, lines 911-921: the cash amount of a posting
CashAmount(account) ==
  IF account.PriceType = "@" THEN account.Amount * account.PriceAmount
  ELSE IF account.Amount < 0 THEN -account.PriceAmount
  ELSE account.PriceAmount

\* Portfolio, lines 904-937: the cash flows of the accounts A of an entry
\* dated date
RECURSIVE AccountCashFlows(_, _)
AccountCashFlows(A, date) ==
  IF A = <<>> THEN <<>>
  ELSE
    LET account == Head(A)
        flow(type) == <<[Date |-> date, Amount |-> CashAmount(account),
                         FlowType |-> type]>>
        here == IF ~isAssetAccount(account.Name) \/ account.PriceType = ""
                  THEN <<>>
                ELSE IF account.Amount > 0 THEN flow("deposit")
                ELSE IF account.Amount < 0 THEN flow("withdrawal")
                ELSE <<>>
    IN  here \o AccountCashFlows(Tail(A), date)

\* Portfolio, lines 898-939: the cash flows of the entries E
RECURSIVE EntryCashFlows(_)
EntryCashFlows(E) ==
  IF E = <<>> THEN <<>>
  ELSE AccountCashFlows(Head(E).Accounts, EntryDate(Head(E)))
         \o EntryCashFlows(Tail(E))

\* Ledger.Portfolio, called on the ledger New returned.  The portfolio
\* shares the ledger's lot registry and price history.
LedgerPortfolio ==
  /\ pc = "done"
  /\ IF Len(cfg.AssetAccounts) = 0
     THEN /\ pc' = "noPortfolio"
          /\ err' = [msg |-> "AssetAccounts must be configured",
                     line |-> 0, name |-> ""]
          /\ UNCHANGED portVars
     ELSE /\ pc' = "portfolio"
          /\ CashFlows' = EntryCashFlows(Entries)
          /\ Snapshots' = <<>>
          /\ UNCHANGED err
  /\ UNCHANGED <<cfg, regVars, state, ln, lastLine, previousDate, declVars,
                 Entries, e, metadataMode, startLine, pos>>

InitNew ==
  /\ NewLotRegistry
  /\ call = NoCall
  /\ \E c \in Configs : NewStart(c)

NextNew ==
  \/ \E line \in Lines : NewScanLine(line)
  \/ NewEOF
  \/ \E line \in Lines : ParseEntryLine(line)
  \/ ParseEntryEOF
  \/ ExtractLotsStep
  \/ LedgerPortfolio

SpecNew == InitNew /\ [][NextNew]_vars

\* ------------------------------------------------- New, on trade journals
\* Journals of purchases and sales only, long enough for two balanced
\* entries: the header lines with and without an effective date, priced
\* postings on the asset account, the elided bank posting and the blank
\* line, loaded with the asset prefix configured and metadata disabled.
MaxTradeLines == 7
TradeLines ==
  {Blank, ElidedPosting(Bank)}
    \cup {Header(TRUE, d, FALSE, TRUE, ZeroTime) : d \in Dates}
    \cup {Header(TRUE, df[1], TRUE, TRUE, df[2]) :
            df \in {x \in Dates \X Dates : x[1] # x[2]}}
    \cup {PricedPosting(AssetBTC, a, "BTC", "@", 3, "USD") : a \in {-1, 1, 2}}
TradeConfig ==
  [Strict |-> FALSE, AddMissingHashes |-> FALSE, DisableMetadata |-> TRUE,
   AssetAccounts |-> <<AssetPrefix>>]

InitTrades ==
  /\ NewLotRegistry
  /\ call = NoCall
  /\ NewStart(TradeConfig)

TradeScanLine(line) == NewScan(line, MaxTradeLines)
TradeEntryLine(line) == ParseEntry(line, MaxTradeLines)

NextTrades ==
  \/ \E line \in TradeLines : TradeScanLine(line)
  \/ NewEOF
  \/ \E line \in TradeLines : TradeEntryLine(line)
  \/ ParseEntryEOF
  \/ ExtractLotsStep

SpecTrades == InitTrades /\ [][NextTrades]_vars

\* ------------------------------------------ the registry used on its own
DefaultConfig ==
  [Strict |-> FALSE, AddMissingHashes |-> FALSE, DisableMetadata |-> TRUE,
   AssetAccounts |-> <<>>]

Init ==
  /\ NewLotRegistry
  /\ call = NoCall
  /\ NewStart(DefaultConfig)

\* A caller may call the registry when the previous call has returned.
CallAddLot ==
  /\ call = NoCall
  /\ Len(lots) < MaxLots
  /\ \E c \in CommodityNames, d \in Dates, q \in 1..MaxQty, cost \in CostBases :
       AddLot(Lot(c, d, q, cost))
  /\ UNCHANGED newVars

CallDisposeFIFO ==
  /\ call = NoCall
  /\ Len(Disposals) < MaxDisposals
  /\ \E c \in CommodityNames, q \in -1..(MaxQty + 1), d \in DisposalDates,
        pr \in ProceedsSet :
       DisposeFIFO(c, q, d, pr)
  /\ UNCHANGED newVars

\* The caller takes the result; the registry is left as the call left it.
Return ==
  /\ call # NoCall
  /\ call' = NoCall
  /\ UNCHANGED <<lots, LotsByCommodity, Disposals>>
  /\ UNCHANGED newVars

NextRegistry == CallAddLot \/ CallDisposeFIFO \/ Return

SpecRegistry == Init /\ [][NextRegistry]_vars

\* ------------------------------------- the price history used on its own
PointDates == Dates \cup {MaxDate + 2}
QueryDates == 0..(MaxDate + 3)
PointPrices == {3, 4}

RECURSIVE SumLen(_, _)
SumLen(h, S) ==
  IF S = {} THEN 0
  ELSE LET c == CHOOSE x \in S : TRUE IN Len(h[c]) + SumLen(h, S \ {c})

CallAddPrice ==
  /\ call = NoCall
  /\ SumLen(Prices, CommodityNames) < MaxPoints
  /\ \E c \in CommodityNames, d \in PointDates, p \in PointPrices :
       /\ \E h \in AddPrice(Prices, c, d, p) : Prices' = h
       /\ call' = [op |-> "AddPrice", commodity |-> c, date |-> d,
                   price |-> p, PricesBefore |-> Prices]
  /\ UNCHANGED <<lots, LotsByCommodity, Disposals, cfg, pc, state, ln,
                 lastLine, previousDate, HeaderComments, Commodities, Accounts,
                 Tags, Entries, e, metadataMode, startLine, pos, err>>
  /\ UNCHANGED portVars

CallGetPrice ==
  /\ call = NoCall
  /\ \E c \in CommodityNames, d \in QueryDates :
       LET r == GetPrice(Prices, c, d)
       IN  call' = [op |-> "GetPrice", commodity |-> c, date |-> d,
                    price |-> r.price, err |-> r.err]
  /\ UNCHANGED <<lots, LotsByCommodity, Disposals>>
  /\ UNCHANGED newVars

NextPrices == CallAddPrice \/ CallGetPrice \/ Return

SpecPrices == Init /\ [][NextPrices]_vars

\* -------------------------------------- validateBalance called on its own
\* The accounts of the entries validateBalance is called on: an elided one,
\* plain amounts in two commodities, and priced amounts whose balance
\* amounts are 6 and -3 USD.
BalanceAccounts ==
  {[NewAccount EXCEPT !.Name = Bank]}
    \cup {[NewAccount EXCEPT !.Name = Bank, !.Amount = a, !.Commodity = c] :
            a \in {-3, 2}, c \in {"USD", "EUR"}}
    \cup {[NewAccount EXCEPT !.Name = AssetBTC, !.Amount = 2,
                             !.Commodity = "BTC", !.PriceType = "@",
                             !.PriceAmount = 3, !.PriceCommodity = "USD"],
          [NewAccount EXCEPT !.Name = AssetBTC, !.Amount = -1,
                             !.Commodity = "BTC", !.PriceType = "@@",
                             !.PriceAmount = 3, !.PriceCommodity = "USD"]}

BalanceEntries ==
  {[NewEntry EXCEPT !.Accounts = A] :
     A \in UNION {[1..n -> BalanceAccounts] : n \in 0..MaxAccounts}}

InitBalance ==
  /\ NewLotRegistry
  /\ call = NoCall
  /\ cfg = DefaultConfig
  /\ pc = "validateBalance"
  /\ state = parseEntries
  /\ ln = 0
  /\ lastLine = Blank
  /\ previousDate = Epoch
  /\ HeaderComments = <<>>
  /\ Commodities = {}
  /\ Accounts = {}
  /\ Tags = {}
  /\ Prices = [c \in CommodityNames |-> <<>>]
  /\ Entries = <<>>
  /\ e \in BalanceEntries
  /\ metadataMode = FALSE
  /\ startLine \in {1, 2}
  /\ pos = <<1, 1>>
  /\ Snapshots = <<>>
  /\ CashFlows = <<>>
  /\ err = NoError

\* e.validateBalance(startLine): the receiver is changed in place, the
\* error is returned
CallValidateBalance ==
  /\ pc = "validateBalance"
  /\ LET r == validateBalance(e, startLine)
     IN  /\ e' = r.e
         /\ call' = [op |-> "validateBalance", e |-> e, err |-> r.err]
         /\ err' = [msg |-> r.err, line |-> r.line, name |-> r.name]
         /\ pc' = IF r.err = "" THEN "done" ELSE "error"
  /\ UNCHANGED <<lots, LotsByCommodity, Disposals, cfg, state, ln, lastLine,
                 previousDate, declVars, Entries, metadataMode, startLine, pos>>
  /\ UNCHANGED portVars

NextBalance == CallValidateBalance

SpecBalance == InitBalance /\ [][NextBalance]_vars

\* ======================================================= claims, registry
IsDispose == call.op = "DisposeFIFO"
DisposeOk == IsDispose /\ ~call.err
RemainingBefore(c) == SumRemaining(call.lotsBefore, LotsByCommodity[c])
Reduced(p) == lots[p].RemainingQuantity < call.lotsBefore[p].RemainingQuantity

RECURSIVE SumProceeds(_)
SumProceeds(ds) ==
  IF ds = <<>> THEN RInt(0) ELSE RAdd(Head(ds).Proceeds, SumProceeds(Tail(ds)))

RECURSIVE SumQuantityDisposed(_)
SumQuantityDisposed(ds) ==
  IF ds = <<>> THEN 0 ELSE Head(ds).QuantityDisposed + SumQuantityDisposed(Tail(ds))

\* C1: a successful DisposeFIFO(c, Q, ...) lowers RemainingQuantity(c) by
\* exactly Q, and a lot of c is reduced only if every lot of c with an
\* earlier acquisition date has remaining quantity 0 after the call.
C1_FIFO ==
  DisposeOk =>
    /\ RemainingQuantity(call.commodity)
         = RemainingBefore(call.commodity) - call.quantity
    /\ \A p \in Range(LotsByCommodity[call.commodity]) :
         Reduced(p) =>
           \A o \in Range(LotsByCommodity[call.commodity]) :
             lots[o].AcquisitionDate < lots[p].AcquisitionDate
               => lots[o].RemainingQuantity = 0

\* C1 witness: a disposal that exhausted an older lot and went on to reduce
\* a newer one, which keeps a remainder.
C1_Witness ==
  /\ DisposeOk
  /\ \E p, o \in Range(LotsByCommodity[call.commodity]) :
       /\ lots[o].AcquisitionDate < lots[p].AcquisitionDate
       /\ Reduced(o) /\ Reduced(p)
       /\ lots[p].RemainingQuantity > 0

\* C3: DisposeFIFO(c, Q, ...) with Q <= 0 or Q > RemainingQuantity(c) returns
\* an error, changes no lot and appends no disposal record.
C3_Rejected ==
  (IsDispose /\ (call.quantity <= 0
                 \/ call.quantity > RemainingBefore(call.commodity)))
    => /\ call.err
       /\ call.disposals = <<>>
       /\ lots = call.lotsBefore
       /\ Disposals = call.DisposalsBefore

\* C3 witness: a request for more than the positive quantity that remains,
\* made after an earlier disposal was recorded.
C3_Witness ==
  /\ IsDispose /\ call.err
  /\ RemainingBefore(call.commodity) > 0
  /\ call.quantity > RemainingBefore(call.commodity)
  /\ Disposals # <<>>

\* C4: DisposeFIFO with a positive quantity for a commodity that has no lots
\* in the registry returns an error and records nothing.
C4_UnknownCommodity ==
  (IsDispose /\ call.quantity > 0 /\ LotsByCommodity[call.commodity] = <<>>)
    => /\ call.err
       /\ Disposals = call.DisposalsBefore
       /\ lots = call.lotsBefore

\* C4 witness: such a call while another commodity does have lots.
C4_Witness ==
  /\ IsDispose /\ call.err /\ call.quantity > 0
  /\ LotsByCommodity[call.commodity] = <<>>
  /\ \E c \in CommodityNames : LotsByCommodity[c] # <<>>

\* C5: every disposal record has RealizedGain = Proceeds - QuantityDisposed *
\* Lot.CostPerUnit for the lot it references, also after later disposals
\* changed that lot.
C5_RealizedGain ==
  \A i \in DOMAIN Disposals :
    Disposals[i].RealizedGain
      = RSub(Disposals[i].Proceeds,
             RMul(RInt(Disposals[i].QuantityDisposed),
                  lots[Disposals[i].Lot].CostPerUnit))

\* C5 witness: records of two different calls reference the same lot (the
\* later call changed the lot the earlier record points to), with a gain that
\* is not a whole number.
C5_Witness ==
  /\ IsDispose
  /\ \E i, j \in DOMAIN Disposals :
    /\ i <= Len(call.DisposalsBefore) /\ j > Len(call.DisposalsBefore)
    /\ Disposals[i].Lot = Disposals[j].Lot
    /\ Disposals[i].RealizedGain[2] # 1

\* C6: the records returned by a successful DisposeFIFO(c, Q, date,
\* totalProceeds) have Proceeds summing to totalProceeds and QuantityDisposed
\* summing to Q.
C6_ProceedsSum ==
  DisposeOk =>
    /\ SumProceeds(call.disposals) = RInt(call.totalProceeds)
    /\ SumQuantityDisposed(call.disposals) = call.quantity

\* C6 witness: a disposal split across two lots into unequal parts whose
\* proceeds are not whole numbers.
C6_Witness ==
  /\ DisposeOk
  /\ Len(call.disposals) = 2
  /\ call.disposals[1].QuantityDisposed # call.disposals[2].QuantityDisposed
  /\ call.disposals[1].Proceeds[2] # 1

\* C8: each commodity's lot list is sorted ascending by acquisition date and
\* holds every lot added for that commodity exactly once.
C8_SortedLists ==
  \A c \in CommodityNames :
    /\ SortedByDate(lots, LotsByCommodity[c])
    /\ Range(LotsByCommodity[c])
         = {p \in DOMAIN lots : lots[p].Commodity = c}
    /\ Len(LotsByCommodity[c]) = Cardinality(Range(LotsByCommodity[c]))

\* C8 witness: a lot was added with an earlier date than a lot added before
\* it, after a disposal had already taken place.
C8_Witness ==
  /\ call.op = "AddLot"
  /\ Disposals # <<>>
  /\ \E p \in DOMAIN lots :
       /\ p < call.lot
       /\ lots[p].Commodity = lots[call.lot].Commodity
       /\ lots[p].AcquisitionDate > lots[call.lot].AcquisitionDate

\* ================================================== claims, loading a file
\* C2: loading a ledger in which an asset posting with a price annotation
\* and a negative amount disposes a commodity for which no lot was ever
\* added succeeds: no error, no disposal record, no lot.
C2_DisposalWithoutLotsSkipped ==
  (IsDispose /\ LotsByCommodity[call.commodity] = <<>>)
    => /\ pc # "error"
       /\ Disposals = <<>>
       /\ lots = call.lotsBefore

\* C7: a lot keeps 0 <= RemainingQuantity <= OriginalQuantity, its
\* RemainingQuantity never increases, it is never removed from its
\* commodity's list, and its other fields never change.
C7_LotStep ==
  /\ Len(lots') >= Len(lots)
  /\ \A p \in DOMAIN lots :
       /\ lots'[p].RemainingQuantity <= lots[p].RemainingQuantity
       /\ lots'[p] = [lots[p] EXCEPT
                        !.RemainingQuantity = lots'[p].RemainingQuantity]
  /\ \A p \in DOMAIN lots' :
       /\ 0 <= lots'[p].RemainingQuantity
       /\ lots'[p].RemainingQuantity <= lots'[p].OriginalQuantity
  /\ \A c \in CommodityNames :
       Range(LotsByCommodity[c]) \subseteq Range(LotsByCommodity'[c])

C7_LotLifecycle == [][C7_LotStep]_vars

\* C7 witness: a ledger was returned in which a lot is partly disposed and
\* another lot was added after that disposal.
C7_Witness ==
  /\ pc = "done"
  /\ \E p, q \in DOMAIN lots :
       /\ p < q
       /\ 0 < lots[p].RemainingQuantity
       /\ lots[p].RemainingQuantity < lots[p].OriginalQuantity
       /\ \E i \in DOMAIN Disposals : Disposals[i].Lot = p

\* The parse state in which a declaration or price line is recorded
SectionOf(kind) ==
  CASE kind = "commodity" -> parseCommodities
    [] kind = "account" -> parseAccounts
    [] kind = "tag" -> parseTags
    [] kind = "P" -> parsePrices

DeclKinds == {"commodity", "account", "tag", "P"}

\* C9: the parse state never goes back; once a later state is reached, a
\* commodity, account, tag or P line of an earlier state is not recorded:
\* New takes it for an entry header and fails on its date.
C9_Step ==
  /\ state' >= state
  /\ state > parseCommodities => Commodities' = Commodities
  /\ state > parseAccounts => Accounts' = Accounts
  /\ state > parseTags => Tags' = Tags
  /\ state > parsePrices => Prices' = Prices
  /\ (/\ pc = "New" /\ ln' = ln + 1
      /\ lastLine'.kind \in DeclKinds
      /\ SectionOf(lastLine'.kind) < state)
       => pc' = "error" /\ err'.msg = "cannot parse date"

C9_StateForward == [][C9_Step]_vars

\* C9 witness: after a commodity was declared and the entries were reached,
\* a further commodity line was read and rejected.
C9_Witness ==
  /\ pc = "error" /\ err.msg = "cannot parse date"
  /\ state = parseEntries
  /\ Entries # <<>>
  /\ lastLine.kind = "commodity"
  /\ Commodities # {} /\ lastLine.value \notin Commodities

\* the date an entry counts by: the effective date, else the accounting date
C10_DateOf(en) ==
  IF en.EffectiveDate # ZeroTime THEN en.EffectiveDate ELSE en.Date

\* C10: the entries of a returned ledger are non-decreasing by effective
\* date (accounting date when there is none), and an entry header whose date
\* is before that of the preceding entry makes New fail.
C10_DateOrder ==
  /\ pc = "done" =>
       \A i, j \in DOMAIN Entries :
         i < j => C10_DateOf(Entries[i]) <= C10_DateOf(Entries[j])
  /\ (/\ lastLine.kind = "header" /\ lastLine.dateOK /\ lastLine.effOK
      /\ (IF lastLine.hasEff THEN lastLine.effective ELSE lastLine.date)
           < previousDate)
       => pc = "error"

\* C10 witness: a returned ledger whose accounting dates go down while its
\* effective dates do not.
C10_Witness ==
  /\ pc = "done"
  /\ \E i, j \in DOMAIN Entries :
       /\ i < j
       /\ Entries[i].Date > Entries[j].Date
       /\ Entries[i].EffectiveDate # ZeroTime

\* ============================================= claims, balance of an entry
\* the sum of the price-converted balance amounts of all accounts in A
RECURSIVE BalanceSum(_)
BalanceSum(A) ==
  IF A = <<>> THEN 0 ELSE balanceAmount(Head(A))[1] + BalanceSum(Tail(A))

\* the commodities the price-converted balance amounts of A fall in
BalanceCommodities(A) == {balanceAmount(A[i])[2] : i \in DOMAIN A}

\* an entry without elided account whose amounts fall in one commodity
OneCommodityNoElided(A) ==
  /\ \A i \in DOMAIN A : A[i].Commodity # "" /\ ~A[i].Elided
  /\ Cardinality(BalanceCommodities(A)) = 1

\* parseEntry ends the entry it is reading: on a blank line or at end of file
EntryEnds ==
  /\ pc = "parseEntry"
  /\ \/ ln' = ln + 1 /\ lastLine'.kind = "blank"
     \/ ln' = ln /\ pc' # pc

\* C11: an accepted entry without elided account and with one balance
\* commodity sums to within [-0.005, +0.005]; when parseEntry ends such an
\* entry (blank line or end of file) whose sum is outside the interval, New
\* fails with an error naming the commodity and the entry's starting line.
C11_Step ==
  /\ \A i \in DOMAIN Entries' :
       OneCommodityNoElided(Entries'[i].Accounts)
         => /\ BalanceSum(Entries'[i].Accounts) >= -5
            /\ BalanceSum(Entries'[i].Accounts) <= 5
  /\ (/\ EntryEnds
      /\ OneCommodityNoElided(e.Accounts)
      /\ (BalanceSum(e.Accounts) < -5 \/ BalanceSum(e.Accounts) > 5))
       => /\ pc' = "error"
          /\ err' = [msg |-> "entry not balanced", line |-> startLine,
                     name |-> CHOOSE c \in BalanceCommodities(e.Accounts) : TRUE]
          /\ Entries' = Entries

IsValidateBalance == call.op = "validateBalance"

\* the accounts of A with an elided amount: no commodity is set
ElidedIn(A) == {i \in DOMAIN A : A[i].Commodity = ""}

\* A without its k-th element
Without(A, k) == SubSeq(A, 1, k - 1) \o SubSeq(A, k + 1, Len(A))

\* C12: with exactly one elided account and the balance amounts of the
\* other accounts in exactly one commodity, validateBalance succeeds and
\* gives the elided account that commodity and the negated sum, at whatever
\* index it stands; the other accounts are unchanged and the entry sums to
\* zero.
C12_ElidedInferred ==
  IsValidateBalance =>
    \A k \in DOMAIN call.e.Accounts :
      LET others == Without(call.e.Accounts, k)
      IN  (/\ ElidedIn(call.e.Accounts) = {k}
           /\ Cardinality(BalanceCommodities(others)) = 1)
            => /\ call.err = ""
               /\ e.Accounts[k].Amount = 0 - BalanceSum(others)
               /\ {e.Accounts[k].Commodity} = BalanceCommodities(others)
               /\ Without(e.Accounts, k) = others
               /\ BalanceSum(e.Accounts) = 0
               /\ Cardinality(BalanceCommodities(e.Accounts)) = 1

\* C12 witness: the elided account stands first, before two accounts, one
\* of them priced, whose sum is not zero.
C12_Witness ==
  /\ IsValidateBalance /\ call.err = ""
  /\ Len(call.e.Accounts) = 3
  /\ ElidedIn(call.e.Accounts) = {1}
  /\ call.e.Accounts[3].PriceType = "@"
  /\ e.Accounts[1].Commodity = "USD"
  /\ e.Accounts[1].Amount < 0

\* C13: with exactly one elided account and the balance amounts of the
\* other accounts in two or more commodities, validateBalance succeeds and
\* the elided account keeps amount 0 and the empty commodity.
C13_ElidedMultiCommodity ==
  IsValidateBalance =>
    \A k \in DOMAIN call.e.Accounts :
      (/\ ElidedIn(call.e.Accounts) = {k}
       /\ Cardinality(BalanceCommodities(Without(call.e.Accounts, k))) >= 2)
        => /\ call.err = ""
           /\ e.Accounts[k].Amount = call.e.Accounts[k].Amount
           /\ e.Accounts[k].Amount = 0
           /\ e.Accounts[k].Commodity = ""

\* C13 witness: an elided account between amounts in USD and EUR.
C13_Witness ==
  /\ IsValidateBalance /\ call.err = ""
  /\ Len(call.e.Accounts) = 3
  /\ ElidedIn(call.e.Accounts) = {2}
  /\ call.e.Accounts[1].Commodity = "USD"
  /\ call.e.Accounts[3].Commodity = "EUR"
  /\ e.Accounts[2].Elided

\* C14: with two or more elided accounts validateBalance returns an error
\* and changes no account.
C14_MultipleElided ==
  (IsValidateBalance /\ Cardinality(ElidedIn(call.e.Accounts)) >= 2)
    => /\ call.err = "multiple accounts with elided amounts"
       /\ pc = "error"
       /\ e = call.e

\* C14 witness: two elided accounts around an amount.
C14_Witness ==
  /\ IsValidateBalance /\ call.err # ""
  /\ ElidedIn(call.e.Accounts) = {1, 3}
  /\ call.e.Accounts[2].Amount # 0

\* C15: without elided account and with balance amounts in more than one
\* commodity, validateBalance returns no error.
C15_MultiCommodityAccepted ==
  (/\ IsValidateBalance
   /\ ElidedIn(call.e.Accounts) = {}
   /\ Cardinality(BalanceCommodities(call.e.Accounts)) > 1)
    => call.err = "" /\ pc = "done" /\ e = call.e

\* C15 witness: such an entry in which no commodity sums to zero, one of
\* them being 6 thousandths off.
C15_Witness ==
  /\ IsValidateBalance /\ call.err = ""
  /\ ElidedIn(call.e.Accounts) = {}
  /\ Cardinality(BalanceCommodities(call.e.Accounts)) > 1
  /\ \E i \in DOMAIN call.e.Accounts :
       call.e.Accounts[i].PriceType = "@"
  /\ \A i \in DOMAIN call.e.Accounts :
       balanceAmount(call.e.Accounts[i])[2] = "USD"
         => balanceAmount(call.e.Accounts[i])[1] > 0

\* ================================================= claims, metadata lines
\* C16: once an entry being read has got a metadata line, an account line
\* read next makes New fail with "already parsing metadata", and the
\* accounts of that entry never change again; so the account lines of an
\* accepted entry all precede its metadata lines.
C16_Step ==
  (pc = "parseEntry" /\ e.Metadata # <<>>)
    => /\ e'.Accounts = e.Accounts
       /\ (ln' = ln + 1 /\ lastLine'.kind = "posting")
            => /\ pc' = "error"
               /\ err'.msg = "already parsing metadata"
               /\ Entries' = Entries

C16_MetadataLast == [][C16_Step]_vars

\* C16 witness: an entry with an account line and a metadata line was being
\* read when a well-formed account line was refused.
C16_Witness ==
  /\ pc = "error" /\ err.msg = "already parsing metadata"
  /\ e.Accounts # <<>> /\ e.Metadata # <<>>
  /\ lastLine.kind = "posting" /\ lastLine.fields = 3

\* ================================================ claims, price history
\* the points of commodity c dated on or before d
PointsUpTo(c, d) == {pt \in Range(Prices[c]) : pt.Date <= d}

\* C17: GetPrice(c, d) returns an error when c has no point dated on or
\* before d (no point at all, or d before the earliest); otherwise it
\* returns the price of a point of c with the latest date that is <= d, which
\* is the last point's price when d is after all points.
C17_GetPrice ==
  call.op = "GetPrice" =>
    IF PointsUpTo(call.commodity, call.date) = {}
    THEN call.err # ""
    ELSE /\ call.err = ""
         /\ \E pt \in PointsUpTo(call.commodity, call.date) :
              /\ pt.Price = call.price
              /\ \A q \in PointsUpTo(call.commodity, call.date) :
                   q.Date <= pt.Date

\* C17 witness: in a history of three points the query date lies strictly
\* between the dates of two points with different prices, and the earlier
\* one's price is returned.
C17_Witness ==
  /\ call.op = "GetPrice" /\ call.err = ""
  /\ \E i, j \in DOMAIN Prices[call.commodity] :
       LET a == Prices[call.commodity][i]
           b == Prices[call.commodity][j]
       IN  /\ a.Date < call.date /\ call.date < b.Date
           /\ a.Price # b.Price /\ a.Price = call.price
  /\ Len(Prices[call.commodity]) = 3

\* the number of times v occurs in the list s
CountOf(s, v) == Cardinality({i \in DOMAIN s : s[i] = v})

\* C18: every commodity's point list is sorted ascending by date; AddPrice
\* adds exactly one point to the list of its commodity, keeping every point
\* that was there (equal dates included), and leaves the other lists as
\* they were.
C18_AddPrice ==
  /\ \A c \in CommodityNames :
       \A i, j \in DOMAIN Prices[c] :
         i < j => Prices[c][i].Date <= Prices[c][j].Date
  /\ call.op = "AddPrice" =>
       LET c == call.commodity
           point == [Date |-> call.date, Commodity |-> c, Price |-> call.price]
           before == call.PricesBefore
       IN  /\ Len(Prices[c]) = Len(before[c]) + 1
           /\ \A v \in Range(Prices[c]) :
                CountOf(Prices[c], v)
                  = CountOf(before[c], v) + (IF v = point THEN 1 ELSE 0)
           /\ \A o \in CommodityNames \ {c} : Prices[o] = before[o]

\* C18 witness: a point was added with a date earlier than a point already
\* there and equal to the date of another one, while another commodity has
\* a point too.
C18_Witness ==
  /\ call.op = "AddPrice"
  /\ Len(call.PricesBefore[call.commodity]) = 2
  /\ \E i, j \in DOMAIN call.PricesBefore[call.commodity] :
       /\ call.PricesBefore[call.commodity][i].Date = call.date
       /\ call.PricesBefore[call.commodity][j].Date > call.date
  /\ Len(Prices[call.commodity]) = 3

\* ================================================ claims, lot extraction
\* a posting on a configured asset account with a price annotation
AssetPriced(a) ==
  /\ \E i \in DOMAIN cfg.AssetAccounts : HasPrefix(a.Name, cfg.AssetAccounts[i])
  /\ a.PriceType \in {"@", "@@"}

\* the postings of the entries E in file order that are purchases
RECURSIVE Purchases(_)
Purchases(E) ==
  IF E = <<>> THEN <<>>
  ELSE SelectSeq(Head(E).Accounts, LAMBDA a : AssetPriced(a) /\ a.Amount > 0)
         \o Purchases(Tail(E))

\* C19: a lot is created with RemainingQuantity = OriginalQuantity, one at
\* a time; when extraction is over there is exactly one lot per asset
\* posting with a price annotation and a positive amount, in file order,
\* with OriginalQuantity = amount, CostBasis = amount * price for "@" and
\* price for "@@", and CostPerUnit = CostBasis / amount.
C19_Step ==
  /\ Len(lots') > Len(lots)
       => /\ Len(lots') = Len(lots) + 1
          /\ lots'[Len(lots')].RemainingQuantity
               = lots'[Len(lots')].OriginalQuantity
  /\ (pc = "extractLots" /\ pc' = "done")
       => /\ Len(lots') = Len(Purchases(Entries))
          /\ \A i \in DOMAIN lots' :
               LET a == Purchases(Entries)[i]
                   cost == IF a.PriceType = "@" THEN a.Amount * a.PriceAmount
                           ELSE a.PriceAmount
               IN  /\ lots'[i].Commodity = a.Commodity
                   /\ lots'[i].OriginalQuantity = a.Amount
                   /\ lots'[i].CostBasis = cost
                   /\ lots'[i].CostPerUnit[1] * a.Amount
                        = cost * lots'[i].CostPerUnit[2]

C19_PurchaseLot == [][C19_Step]_vars

\* C19 witness: a returned ledger with a lot from a "@" posting of amount 2
\* and a lot from a "@@" posting whose cost per unit is not a whole number,
\* next to a posting that made no lot.
C19_Witness ==
  /\ pc = "done"
  /\ Len(lots) = 2
  /\ \E i, j \in DOMAIN lots :
       /\ lots[i].CostBasis = 6 /\ lots[i].OriginalQuantity = 2
       /\ lots[j].CostBasis = 3 /\ lots[j].CostPerUnit = <<3, 2>>
  /\ \E k \in DOMAIN Entries : Len(Entries[k].Accounts) = 3

\* C20: the proceeds extractLots passes to a DisposeFIFO that succeeds, and
\* the proceeds on every disposal record, are not negative (price amounts
\* are not negative), for "@" and for "@@" postings.
C20_ProceedsNotNegative ==
  /\ DisposeOk => call.totalProceeds >= 0
  /\ \A i \in DOMAIN Disposals : Disposals[i].Proceeds[1] >= 0

\* the priced asset postings with a non-zero amount among the accounts A,
\* each with the date d
RECURSIVE DatedPostings(_, _)
DatedPostings(A, d) ==
  IF A = <<>> THEN <<>>
  ELSE (IF AssetPriced(Head(A)) /\ Head(A).Amount # 0
        THEN <<[a |-> Head(A), date |-> d]>> ELSE <<>>)
       \o DatedPostings(Tail(A), d)

\* the priced asset postings of the entries E in file order, each with the
\* effective date of its entry, or the accounting date if it has none
RECURSIVE Trades(_)
Trades(E) ==
  IF E = <<>> THEN <<>>
  ELSE DatedPostings(Head(E).Accounts, C10_DateOf(Head(E))) \o Trades(Tail(E))

\* the disposal records ds are those of the sales S, sale by sale: the
\* records of a sale bear its date and their quantities add up to its amount
RECURSIVE RecordsOfSales(_, _)
RecordsOfSales(ds, S) ==
  IF S = <<>> THEN ds = <<>>
  ELSE \E n \in 1..Len(ds) :
         /\ \A i \in 1..n : ds[i].DisposalDate = Head(S).date
         /\ SumQuantityDisposed(SubSeq(ds, 1, n)) = 0 - Head(S).a.Amount
         /\ RecordsOfSales(SubSeq(ds, n + 1, Len(ds)), Tail(S))

\* C21: in the portfolio of a loaded ledger the acquisition date of every
\* lot, the disposal date of every disposal record and the date of every
\* cash flow is the effective date of the entry it comes from, or the
\* accounting date when the entry has no effective date.
C21_EffectiveDate ==
  pc = "portfolio" =>
    LET T == Trades(Entries)
        buys == SelectSeq(T, LAMBDA t : t.a.Amount > 0)
        sales == SelectSeq(T, LAMBDA t : t.a.Amount < 0)
    IN  /\ Len(lots) = Len(buys)
        /\ \A i \in DOMAIN lots : lots[i].AcquisitionDate = buys[i].date
        /\ RecordsOfSales(Disposals, sales)
        /\ Len(CashFlows) = Len(T)
        /\ \A i \in DOMAIN CashFlows : CashFlows[i].Date = T[i].date

\* C21 witness: a portfolio from an entry whose effective date differs from
\* its accounting date, with a lot, a disposal and two cash flows.
C21_Witness ==
  /\ pc = "portfolio"
  /\ lots # <<>> /\ Disposals # <<>> /\ Len(CashFlows) = 2
  /\ \E i \in DOMAIN Entries :
       /\ Entries[i].EffectiveDate # ZeroTime
       /\ Entries[i].EffectiveDate # Entries[i].Date
       /\ Entries[i].Accounts # <<>>

\* C22: only a posting on an account under a configured asset prefix that
\* has a price annotation changes the lot registry: every step that changes
\* the lots, the index by commodity or the disposals is the iteration of
\* extractLots over such a posting. With no asset prefixes configured the
\* registry of the ledger has no lots and no disposals.
C22_Step ==
  /\ (lots' # lots \/ LotsByCommodity' # LotsByCommodity
        \/ Disposals' # Disposals)
       => /\ pc = "extractLots"
          /\ LET p == NextAccount(Entries, pos[1], pos[2])
             IN  /\ p # <<0, 0>>
                 /\ pos' = <<p[1], p[2] + 1>>
                 /\ AssetPriced(Entries[p[1]].Accounts[p[2]])
  /\ Len(cfg.AssetAccounts) = 0
       => /\ lots' = <<>> /\ Disposals' = <<>>
          /\ \A c \in DOMAIN LotsByCommodity' : LotsByCommodity'[c] = <<>>

C22_OnlyAssetPriced == [][C22_Step]_vars

\* C22 witness: a returned ledger with asset prefixes configured whose one
\* entry has a priced posting on an asset account, a priced posting on
\* another account and a posting without a price, and whose registry holds
\* the one lot of the first.
C22_Witness ==
  /\ pc = "done"
  /\ Len(cfg.AssetAccounts) > 0
  /\ Len(lots) = 1 /\ Disposals = <<>>
  /\ Len(Entries) = 1
  /\ \E i, j, k \in DOMAIN Entries[1].Accounts :
       LET A == Entries[1].Accounts
       IN  /\ AssetPriced(A[i])
           /\ A[j].PriceType # "" /\ ~isAssetAccount(A[j].Name)
           /\ A[k].PriceType = ""

\* C23: in the portfolio of a loaded ledger there is one cash flow per
\* priced asset posting, in posting order; the flow of a purchase (positive
\* amount) is a deposit with an amount >= 0 and the flow of a sale
\* (negative amount) is a withdrawal with an amount <= 0, for "@" and for
\* "@@" annotations alike.
C23_CashFlowSign ==
  pc = "portfolio" =>
    LET T == Trades(Entries)
    IN  /\ Len(CashFlows) = Len(T)
        /\ \A i \in DOMAIN CashFlows :
             /\ T[i].a.Amount > 0
                  => /\ CashFlows[i].FlowType = "deposit"
                     /\ CashFlows[i].Amount >= 0
             /\ T[i].a.Amount < 0
                  => /\ CashFlows[i].FlowType = "withdrawal"
                     /\ CashFlows[i].Amount <= 0

\* C23 witness: a portfolio with the deposit of a purchase and the
\* withdrawals of a "@" sale and of a "@@" sale.
C23_Witness ==
  /\ pc = "portfolio"
  /\ LET T == Trades(Entries)
     IN  /\ Len(CashFlows) = Len(T)
         /\ \E i, j, k \in DOMAIN CashFlows :
              /\ T[i].a.Amount > 0 /\ CashFlows[i].Amount > 0
              /\ T[j].a.Amount < 0 /\ T[j].a.PriceType = "@"
              /\ CashFlows[j].Amount < 0
              /\ T[k].a.Amount < 0 /\ T[k].a.PriceType = "@@"
              /\ CashFlows[k].Amount < 0

\* ---------------------------------------------------------- the portfolio
\* In the specification of the portfolio a date is an instant counted in
\* ticks, TicksPerDay of them to the day, so that two instants may be of
\* the same day.
TicksPerDay == 2
DaysPerWeek == 7
MonthDays == {28, 29, 30, 31}
Daily == 0
Weekly == 1
Monthly == 2

\* bounds of the portfolio specification
MaxChanges == 3

\* date.Format(DateFormat) with DateFormat = "2006/01/02": the day
Format(date) == date \div TicksPerDay

\* The holding before the first lot (holding == nil) and the zero snapshot
\* (no snapshot is returned).
NilHolding ==
  [Commodity |-> "", TotalQuantity |-> 0, TotalCostBasis |-> RInt(0),
   WeightedAverageCost |-> RInt(0), MarketValue |-> 0,
   UnrealizedGain |-> RInt(0), UnrealizedGainPercent |-> RInt(0),
   LotCount |-> 0, FirstAcquisition |-> ZeroTime,
   LastAcquisition |-> ZeroTime]

NilSnapshot ==
  [Date |-> ZeroTime, Holdings |-> <<>>, TotalMarketValue |-> 0,
   TotalCostBasis |-> RInt(0), TotalUnrealizedGain |-> RInt(0),
   TotalUnrealizedGainPercent |-> RInt(0), CashFlowToDate |-> 0,
   Allocations |-> <<>>]

\* mutant: a lot acquired after the date counts as well
Qualifies_Future(lot, date) == ~(lot.RemainingQuantity <= 0)

\* Snapshot, lines 76-83: the lots that are not skipped
Qualifies(lot, date) ==
  ~(lot.AcquisitionDate > date) /\ ~(lot.RemainingQuantity <= 0)

\* sums over the elements of a finite set
RECURSIVE SumOver(_, _)
SumOver(f, S) ==
  IF S = {} THEN 0
  ELSE LET x == CHOOSE y \in S : TRUE IN f[x] + SumOver(f, S \ {x})

RECURSIVE RSumOver(_, _)
RSumOver(f, S) ==
  IF S = {} THEN RInt(0)
  ELSE LET x == CHOOSE y \in S : TRUE IN RAdd(f[x], RSumOver(f, S \ {x}))

\* mutant: what lot p held at the date, the quantities disposed of after
\* the date added back
Remaining_AsOf(L, p, date) ==
  L[p].RemainingQuantity
    + SumOver([k \in DOMAIN Disposals |-> Disposals[k].QuantityDisposed],
              {k \in DOMAIN Disposals : /\ Disposals[k].Lot = p
                                        /\ Disposals[k].DisposalDate > date})

\* Snapshot, lines 93-95: the quantity lot p counts with, which is what
\* remains of it now, whatever the snapshot date
Remaining(L, p, date) == L[p].RemainingQuantity

\* Snapshot, lines 74-100: the loop over the lots of one commodity
RECURSIVE Aggregate(_, _, _, _, _)
Aggregate(L, s, commodity, date, holding) ==
  IF s = <<>> THEN holding
  ELSE
    LET lot == L[Head(s)]
        first == IF holding = NilHolding
                 THEN [NilHolding EXCEPT !.Commodity = commodity,
                         !.FirstAcquisition = lot.AcquisitionDate]
                 ELSE holding
        remainingCostBasis ==
          RMul(lot.CostPerUnit, RInt(Remaining(L, Head(s), date)))
    IN  IF ~Qualifies(lot, date)
        THEN Aggregate(L, Tail(s), commodity, date, holding)
        ELSE Aggregate(L, Tail(s), commodity, date,
               [first EXCEPT
                  !.TotalQuantity = @ + Remaining(L, Head(s), date),
                  !.TotalCostBasis = RAdd(@, remainingCostBasis),
                  !.LotCount = @ + 1,
                  !.LastAcquisition = lot.AcquisitionDate])

\* mutant: no holding is ever entered
HoldingPresent_Never(holding) == FALSE

\* Snapshot, line 102
HoldingPresent(holding) == holding # NilHolding /\ holding.TotalQuantity > 0

\* Snapshot, lines 103-116: the holding with its price applied
Valued(holding, price) ==
  LET value == holding.TotalQuantity * price
      gain == RSub(RInt(value), holding.TotalCostBasis)
  IN  [holding EXCEPT
         !.WeightedAverageCost =
            RDiv(holding.TotalCostBasis, RInt(holding.TotalQuantity)),
         !.MarketValue = value,
         !.UnrealizedGain = gain,
         !.UnrealizedGainPercent =
            IF RLess(RInt(0), holding.TotalCostBasis)
            THEN RMul(RDiv(gain, holding.TotalCostBasis), RInt(100))
            ELSE RInt(0)]

\* Snapshot, lines 138-142
RECURSIVE CashFlowToDate(_, _)
CashFlowToDate(flows, date) ==
  IF flows = <<>> THEN 0
  ELSE (IF ~(Head(flows).Date > date) THEN Head(flows).Amount ELSE 0)
         + CashFlowToDate(Tail(flows), date)

\* Snapshot, lines 64-143, on the lots, prices and cash flows of the
\* portfolio: the results it may return.  The commodities are visited in
\* the order of a Go map, so the error is that of any commodity whose price
\* is missing.
ComputeSnapshot(date) ==
  LET held == [c \in CommodityNames |->
                 Aggregate(lots, LotsByCommodity[c], c, date, NilHolding)]
      present == {c \in CommodityNames : HoldingPresent(held[c])}
      failing == {c \in present : GetPrice(Prices, c, date).err # ""}
      holdings == [c \in present |->
                     Valued(held[c], GetPrice(Prices, c, date).price)]
      value == SumOver([c \in present |-> holdings[c].MarketValue], present)
      cost == RSumOver([c \in present |-> holdings[c].TotalCostBasis], present)
      gain == RSub(RInt(value), cost)
  IN  IF failing # {}
      THEN {[err |-> GetPrice(Prices, c, date).err, snapshot |-> NilSnapshot] :
              c \in failing}
      ELSE {[err |-> "",
             snapshot |->
               [Date |-> date, Holdings |-> holdings,
                TotalMarketValue |-> value, TotalCostBasis |-> cost,
                TotalUnrealizedGain |-> gain,
                TotalUnrealizedGainPercent |->
                  IF RLess(RInt(0), cost)
                  THEN RMul(RDiv(gain, cost), RInt(100)) ELSE RInt(0),
                CashFlowToDate |-> CashFlowToDate(CashFlows, date),
                Allocations |->
                  IF value > 0
                  THEN [c \in present |->
                          RMul(Rat(holdings[c].MarketValue, value), RInt(100))]
                  ELSE <<>>]]}

\* p.Snapshots[key] = snapshot
Put(cache, key, snapshot) ==
  [k \in DOMAIN cache \cup {key} |-> IF k = key THEN snapshot ELSE cache[k]]

\* mutant: a snapshot cached for the day is returned as it is
Snapshot_Memoized(cache, date) ==
  IF Format(date) \in DOMAIN cache
  THEN {[err |-> "", snapshot |-> cache[Format(date)], Snapshots |-> cache]}
  ELSE {[err |-> r.err, snapshot |-> r.snapshot,
         Snapshots |-> IF r.err = "" THEN Put(cache, Format(date), r.snapshot)
                       ELSE cache] : r \in ComputeSnapshot(date)}

\* Portfolio.Snapshot with the cache it is called on: the results and the
\* cache each leaves (line 145)
Snapshot(cache, date) ==
  {[err |-> r.err, snapshot |-> r.snapshot,
    Snapshots |-> IF r.err = "" THEN Put(cache, Format(date), r.snapshot)
                  ELSE cache] : r \in ComputeSnapshot(date)}

\* mutant: a query consumes the cash flows
ReadOnly_Consumes ==
  /\ CashFlows' = <<>>
  /\ UNCHANGED <<lots, LotsByCommodity, Disposals, Prices>>

\* Snapshot, PeriodReturns, BuildTimeSeries: no statement assigns to the
\* lots, the disposals, the prices or the cash flows
ReadOnly == UNCHANGED <<lots, LotsByCommodity, Disposals, Prices, CashFlows>>

\* mutant: equal dates pass
Before_OrEqual(a, b) == a <= b

\* time.Time.Before
Before(a, b) == a < b

\* mutant: a flow at the start date counts
InPeriod_FromStart(cf, startDate, endDate) ==
  cf.Date >= startDate /\ ~(cf.Date > endDate)

\* PeriodReturns, line 673
InPeriod(cf, startDate, endDate) ==
  cf.Date > startDate /\ ~(cf.Date > endDate)

\* PeriodReturns, lines 672-675
RECURSIVE NetCashFlow(_, _, _)
NetCashFlow(flows, startDate, endDate) ==
  IF flows = <<>> THEN 0
  ELSE (IF InPeriod(Head(flows), startDate, endDate)
        THEN Head(flows).Amount ELSE 0)
         + NetCashFlow(Tail(flows), startDate, endDate)

\* PeriodReturns, lines 676-679: the sum of the period's cash flows, each
\* weighted by the part of the period that remains after it
RECURSIVE WeightedCashFlow(_, _, _)
WeightedCashFlow(flows, startDate, endDate) ==
  IF flows = <<>> THEN RInt(0)
  ELSE RAdd(IF InPeriod(Head(flows), startDate, endDate)
            THEN RMul(RInt(Head(flows).Amount),
                      Rat(endDate - Head(flows).Date, endDate - startDate))
            ELSE RInt(0),
            WeightedCashFlow(Tail(flows), startDate, endDate))

\* x / y on float64 values, x # 0: a zero divisor gives +Inf or -Inf, written
\* as <<1, 0>> and <<-1, 0>>
Quotient(x, y) ==
  IF y = 0 THEN <<IF x > 0 THEN 1 ELSE -1, 0>> ELSE Rat(x, y)

\* PeriodReturns, lines 686-695: pr.Return, which stays 0 when neither
\* branch is taken
ModifiedDietz(startValue, absoluteReturn, netCashFlow, weightedCashFlow) ==
  LET denominator == RAdd(RInt(startValue), weightedCashFlow)
  IN  IF RLess(RInt(0), denominator)
        THEN RDiv(RInt(absoluteReturn), denominator)
      ELSE IF absoluteReturn # 0 THEN Quotient(absoluteReturn, netCashFlow)
      ELSE RInt(0)

NilPeriodReturn ==
  [StartDate |-> ZeroTime, EndDate |-> ZeroTime, StartValue |-> 0,
   EndValue |-> 0, NetCashFlow |-> 0, AbsoluteReturn |-> 0,
   Return |-> RInt(0)]

\* Portfolio.PeriodReturns: the results and the cache each leaves.  Return
\* and AnnualizedReturn (a float division and math.Pow) are left out.
PeriodReturns(cache, startDate, endDate) ==
  IF ~Before(startDate, endDate)
  THEN {[err |-> "start date must be before end date",
         pr |-> NilPeriodReturn, Snapshots |-> cache]}
  ELSE UNION {
    IF s.err # ""
    THEN {[err |-> "failed to get start snapshot", pr |-> NilPeriodReturn,
           Snapshots |-> s.Snapshots]}
    ELSE {IF t.err # ""
          THEN [err |-> "failed to get end snapshot",
                pr |-> NilPeriodReturn, Snapshots |-> t.Snapshots]
          ELSE LET net == NetCashFlow(CashFlows, startDate, endDate)
               IN  [err |-> "",
                    pr |-> [StartDate |-> startDate, EndDate |-> endDate,
                            StartValue |-> s.snapshot.TotalMarketValue,
                            EndValue |-> t.snapshot.TotalMarketValue,
                            NetCashFlow |-> net,
                            AbsoluteReturn |->
                              t.snapshot.TotalMarketValue
                                - s.snapshot.TotalMarketValue - net,
                            Return |->
                              ModifiedDietz(
                                s.snapshot.TotalMarketValue,
                                t.snapshot.TotalMarketValue
                                  - s.snapshot.TotalMarketValue - net,
                                net,
                                WeightedCashFlow(CashFlows, startDate,
                                                 endDate))],
                    Snapshots |-> t.Snapshots]
            : t \in Snapshot(s.Snapshots, endDate)}
    : s \in Snapshot(cache, startDate)}

\* TimeSeries.Add: the point is appended and the points are sorted by date
TimeSeriesAdd(points, date, value) ==
  CHOOSE q \in SortPoints(Append(points, [Date |-> date, Value |-> value])) :
    TRUE

\* nextDate; month is the number of days of the month the date is in
nextDate(date, interval, month) ==
  IF interval = Weekly THEN date + DaysPerWeek * TicksPerDay
  ELSE IF interval = Monthly THEN date + month * TicksPerDay
  ELSE date + TicksPerDay

NewPortfolioTimeSeries ==
  [Value |-> <<>>, CostBasis |-> <<>>, UnrealizedGain |-> <<>>,
   RealizedGain |-> <<>>, Holdings |-> <<>>, HoldingValues |-> <<>>]

\* mutant: every disposal counts, whatever its date
CumulativeRealizedGain_All(ds, date) ==
  RSumOver([i \in DOMAIN ds |-> ds[i].RealizedGain], DOMAIN ds)

\* BuildTimeSeries, lines 150-155
RECURSIVE CumulativeRealizedGain(_, _)
CumulativeRealizedGain(ds, date) ==
  IF ds = <<>> THEN RInt(0)
  ELSE RAdd(IF ~(Head(ds).DisposalDate > date) THEN Head(ds).RealizedGain
            ELSE RInt(0),
            CumulativeRealizedGain(Tail(ds), date))

\* BuildTimeSeries, lines 159-171: a point for every holding of the snapshot
AddHoldings(series, holdings, date, field) ==
  [c \in DOMAIN series \cup DOMAIN holdings |->
     IF c \in DOMAIN holdings
     THEN TimeSeriesAdd(IF c \in DOMAIN series THEN series[c] ELSE <<>>,
                        date, holdings[c][field])
     ELSE series[c]]

\* mutant: a failed snapshot is taken like any other
SnapshotFailed_Never(r) == FALSE

\* BuildTimeSeries, line 139: err != nil
SnapshotFailed(r) == r.err # ""

\* BuildTimeSeries, lines 144-171: the points of one snapshot
AddPoints(pts, date, snapshot) ==
  [Value |-> TimeSeriesAdd(pts.Value, date, snapshot.TotalMarketValue),
   CostBasis |-> TimeSeriesAdd(pts.CostBasis, date, snapshot.TotalCostBasis),
   UnrealizedGain |-> TimeSeriesAdd(pts.UnrealizedGain, date,
                                    snapshot.TotalUnrealizedGain),
   RealizedGain |-> TimeSeriesAdd(pts.RealizedGain, date,
                                  CumulativeRealizedGain(Disposals, date)),
   Holdings |-> AddHoldings(pts.Holdings, snapshot.Holdings, date,
                            "TotalQuantity"),
   HoldingValues |-> AddHoldings(pts.HoldingValues, snapshot.Holdings, date,
                                 "MarketValue")]

\* BuildTimeSeries, lines 137-172: the loop from date on, and its body once
\* Snapshot has returned r.  The results of Snapshot differ in the error
\* only, which the loop does not look at.
RECURSIVE BuildLoop(_, _, _, _, _, _)
RECURSIVE BuildStep(_, _, _, _, _, _)
BuildStep(r, date, endDate, interval, month, pts) ==
  BuildLoop(r.Snapshots, nextDate(date, interval, month), endDate, interval,
            month,
            IF SnapshotFailed(r) THEN pts
            ELSE AddPoints(pts, date, r.snapshot))

BuildLoop(cache, date, endDate, interval, month, pts) ==
  IF date > endDate THEN [pts |-> pts, Snapshots |-> cache]
  ELSE BuildStep(CHOOSE x \in Snapshot(cache, date) : TRUE, date, endDate,
                 interval, month, pts)

\* Portfolio.BuildTimeSeries
BuildTimeSeries(cache, startDate, endDate, interval, month) ==
  IF ~Before(startDate, endDate)
  THEN [err |-> "start date must be before end date",
        pts |-> NewPortfolioTimeSeries, Snapshots |-> cache]
  ELSE LET r == BuildLoop(cache, startDate, endDate, interval, month,
                          NewPortfolioTimeSeries)
       IN  [err |-> "", pts |-> r.pts, Snapshots |-> r.Snapshots]

\* ------------------------------------------ the portfolio used on its own
\* What the caller passes: lots of 2 units bought for 3, sales of BTC for
\* proceeds of 5, price points, cash flows, and the instants asked about.
HeldLots ==
  {Lot(cd[1], cd[2], 2, 3) : cd \in {<<"BTC", 1>>, <<"BTC", 2>>, <<"ETH", 1>>}}
SoldQuantities == {1, 2}
Quotes == {<<"BTC", 1, 3>>, <<"BTC", 2, 4>>, <<"ETH", 1, 3>>}
Flows ==
  {[Date |-> 1, Amount |-> 5, FlowType |-> "deposit"],
   [Date |-> 2, Amount |-> -2, FlowType |-> "withdrawal"]}
QueryTimes == 0 .. 3
StartTimes == {1, 2}
EndTimes == {1, 2, 3}
Steps ==
  {<<Daily, 0>>, <<Weekly, 0>>} \cup {<<Monthly, m>> : m \in MonthDays}

Changes ==
  Len(lots) + Len(Disposals) + SumLen(Prices, CommodityNames) + Len(CashFlows)

journalVars ==
  <<cfg, pc, state, ln, lastLine, previousDate, HeaderComments, Commodities,
    Accounts, Tags, Entries, e, metadataMode, startLine, pos, err>>

\* p.Lots.AddLot(...)
PortfolioAddLot ==
  /\ call = NoCall
  /\ Changes < MaxChanges
  /\ \E lot \in HeldLots : AddLot(lot)
  /\ UNCHANGED <<journalVars, Prices, portVars>>

\* p.Lots.DisposeFIFO(...)
PortfolioDisposeFIFO ==
  /\ call = NoCall
  /\ Changes < MaxChanges
  /\ \E q \in SoldQuantities : DisposeFIFO("BTC", q, 2, 5)
  /\ UNCHANGED <<journalVars, Prices, portVars>>

\* p.Prices.AddPrice(...)
PortfolioAddPrice ==
  /\ call = NoCall
  /\ Changes < MaxChanges
  /\ \E q \in Quotes :
       /\ \E h \in AddPrice(Prices, q[1], q[2], q[3]) : Prices' = h
       /\ call' = [op |-> "AddPrice", commodity |-> q[1], date |-> q[2],
                   price |-> q[3]]
  /\ UNCHANGED <<lots, LotsByCommodity, Disposals, journalVars, portVars>>

\* p.CashFlows = append(p.CashFlows, cf)
AppendCashFlow ==
  /\ call = NoCall
  /\ Changes < MaxChanges
  /\ \E cf \in Flows :
       /\ CashFlows' = Append(CashFlows, cf)
       /\ call' = [op |-> "CashFlow", flow |-> cf]
  /\ UNCHANGED <<lots, LotsByCommodity, Disposals, journalVars, Prices,
                 Snapshots>>

CallSnapshot ==
  /\ call = NoCall
  /\ \E date \in QueryTimes : \E r \in Snapshot(Snapshots, date) :
       /\ Snapshots' = r.Snapshots
       /\ call' = [op |-> "Snapshot", date |-> date, err |-> r.err,
                   snapshot |-> r.snapshot, SnapshotsBefore |-> Snapshots]
  /\ ReadOnly
  /\ UNCHANGED journalVars

CallPeriodReturns ==
  /\ call = NoCall
  /\ \E startDate \in StartTimes, endDate \in EndTimes :
       \E r \in PeriodReturns(Snapshots, startDate, endDate) :
         /\ Snapshots' = r.Snapshots
         /\ call' = [op |-> "PeriodReturns", startDate |-> startDate,
                     endDate |-> endDate, err |-> r.err, pr |-> r.pr]
  /\ ReadOnly
  /\ UNCHANGED journalVars

CallBuildTimeSeries ==
  /\ call = NoCall
  /\ \E startDate \in StartTimes, endDate \in EndTimes, step \in Steps :
       LET r == BuildTimeSeries(Snapshots, startDate, endDate, step[1],
                                step[2])
       IN  /\ Snapshots' = r.Snapshots
           /\ call' = [op |-> "BuildTimeSeries", startDate |-> startDate,
                       endDate |-> endDate, interval |-> step[1],
                       err |-> r.err, pts |-> r.pts]
  /\ ReadOnly
  /\ UNCHANGED journalVars

\* The caller takes the result of a call on the portfolio.
PortfolioReturn ==
  /\ call # NoCall
  /\ call' = NoCall
  /\ UNCHANGED <<lots, LotsByCommodity, Disposals, newVars>>

NextPortfolio ==
  \/ PortfolioAddLot \/ PortfolioDisposeFIFO \/ PortfolioAddPrice
  \/ AppendCashFlow \/ CallSnapshot \/ CallPeriodReturns
  \/ CallBuildTimeSeries \/ PortfolioReturn

SpecPortfolio == Init /\ [][NextPortfolio]_vars

\* ------------------------------------------------- claims on the portfolio
\* the lots of commodity c acquired on or before d of which something is left
LotsHeld(c, d) ==
  {i \in DOMAIN lots : /\ lots[i].Commodity = c
                       /\ lots[i].AcquisitionDate <= d
                       /\ lots[i].RemainingQuantity > 0}

\* commodity c has a price point dated on or before d
PricedAt(c, d) == \E i \in DOMAIN Prices[c] : Prices[c][i].Date <= d

\* C24: in a successful Snapshot(d) a commodity has a holding iff some lot
\* of it was acquired on or before d and has a remaining quantity > 0; the
\* holding's TotalQuantity is the sum of the remaining quantities of those
\* lots, its TotalCostBasis the sum of remaining * CostPerUnit, and its
\* LotCount their number.
C24_Holdings ==
  (call.op = "Snapshot" /\ call.err = "") =>
    \A c \in CommodityNames :
      LET held == LotsHeld(c, call.date)
      IN  /\ c \in DOMAIN call.snapshot.Holdings <=> held # {}
          /\ held # {} =>
               LET h == call.snapshot.Holdings[c]
               IN  /\ h.TotalQuantity
                        = SumOver([i \in held |-> lots[i].RemainingQuantity],
                                  held)
                   /\ h.TotalCostBasis
                        = RSumOver([i \in held |->
                                      RMul(RInt(lots[i].RemainingQuantity),
                                           lots[i].CostPerUnit)], held)
                   /\ h.LotCount = Cardinality(held)

\* C24 witness: a successful snapshot with a holding that counts fewer lots
\* than the commodity has (one is acquired later, or nothing is left of it).
C24_Witness ==
  /\ call.op = "Snapshot" /\ call.err = ""
  /\ \E c \in DOMAIN call.snapshot.Holdings :
       call.snapshot.Holdings[c].LotCount < Len(LotsByCommodity[c])

\* C25: Snapshot(d) fails iff some commodity with a lot acquired on or
\* before d and a remaining quantity > 0 has no price point dated on or
\* before d; on an empty portfolio it succeeds with no holdings and a total
\* market value of 0.
C25_SnapshotFails ==
  call.op = "Snapshot" =>
    /\ call.err # ""
         <=> \E c \in CommodityNames :
               LotsHeld(c, call.date) # {} /\ ~PricedAt(c, call.date)
    /\ lots = <<>>
         => /\ call.err = ""
            /\ DOMAIN call.snapshot.Holdings = {}
            /\ call.snapshot.TotalMarketValue = 0

\* C25 witness: a snapshot that fails for a commodity that is held at the
\* date and has price points, all of them dated after it.
C25_Witness ==
  /\ call.op = "Snapshot" /\ call.err # ""
  /\ \E c \in CommodityNames :
       /\ LotsHeld(c, call.date) # {}
       /\ Prices[c] # <<>>
       /\ ~PricedAt(c, call.date)

\* the price of the latest point of commodity c dated on or before d
LatestPrice(c, d) ==
  LET P == {i \in DOMAIN Prices[c] : Prices[c][i].Date <= d}
      i == CHOOSE x \in P : \A y \in P : Prices[c][y].Date <= Prices[c][x].Date
  IN  Prices[c][i].Price

\* the value at instant d of what is held of commodity c
ValueHeld(c, d) ==
  IF LotsHeld(c, d) = {} THEN 0
  ELSE SumOver([i \in LotsHeld(c, d) |-> lots[i].RemainingQuantity],
               LotsHeld(c, d)) * LatestPrice(c, d)

\* C26: a successful Snapshot(d) returns what the lots, prices and cash
\* flows of the portfolio give at the time of the call, whatever snapshot
\* was cached for the day before: its date is d, its total market value is
\* the value of the lots now held at their latest prices and its cash flow
\* to date the sum of the flows up to d; and it is the snapshot now stored
\* under the day of d.
C26_NotStale ==
  (call.op = "Snapshot" /\ call.err = "") =>
    /\ call.snapshot.Date = call.date
    /\ call.snapshot.TotalMarketValue
         = SumOver([c \in CommodityNames |-> ValueHeld(c, call.date)],
                   CommodityNames)
    /\ call.snapshot.CashFlowToDate
         = SumOver([i \in {j \in DOMAIN CashFlows :
                             CashFlows[j].Date <= call.date} |->
                      CashFlows[i].Amount],
                   {j \in DOMAIN CashFlows : CashFlows[j].Date <= call.date})
    /\ (call.date \div TicksPerDay) \in DOMAIN Snapshots
    /\ Snapshots[call.date \div TicksPerDay] = call.snapshot

\* C26 witness: a successful Snapshot(d) on a portfolio that had a snapshot
\* of the same instant cached which differs from the one returned.
C26_Witness ==
  /\ call.op = "Snapshot" /\ call.err = ""
  /\ Format(call.date) \in DOMAIN call.SnapshotsBefore
  /\ call.SnapshotsBefore[Format(call.date)].Date = call.date
  /\ call.SnapshotsBefore[Format(call.date)] # call.snapshot

\* C27: a call of Snapshot, PeriodReturns or BuildTimeSeries leaves the
\* lots with their remaining quantities, the per-commodity lists, the
\* disposals, the price history and the cash flows as they were, whether it
\* succeeds or fails.
C27_Step ==
  (call = NoCall
     /\ call'.op \in {"Snapshot", "PeriodReturns", "BuildTimeSeries"})
    => UNCHANGED <<lots, LotsByCommodity, Disposals, Prices, CashFlows>>

C27_ReadOnly == [][C27_Step]_vars

\* C27 witness: a PeriodReturns call that failed at its end snapshot on a
\* portfolio with lots and cash flows, after its start snapshot was cached.
C27_Witness ==
  /\ call.op = "PeriodReturns"
  /\ call.err = "failed to get end snapshot"
  /\ lots # <<>> /\ CashFlows # <<>>
  /\ Format(call.startDate) \in DOMAIN Snapshots

\* C28: PeriodReturns(start, end) with start not strictly before end
\* returns an error and no result.
C28_StartBeforeEnd ==
  (call.op = "PeriodReturns" /\ ~(call.startDate < call.endDate)) =>
    /\ call.err # ""
    /\ call.pr = NilPeriodReturn

\* C28 witness: PeriodReturns with start = end has returned, on a portfolio
\* whose snapshot at that instant succeeds.
C28_Witness ==
  /\ call.op = "PeriodReturns"
  /\ call.startDate = call.endDate
  /\ call.err # ""
  /\ lots # <<>>
  /\ \A c \in CommodityNames :
       LotsHeld(c, call.startDate) # {} => PricedAt(c, call.startDate)

\* C29: in the result of a successful PeriodReturns(start, end) NetCashFlow
\* is the sum of the amounts of the cash flows with start < date <= end,
\* and AbsoluteReturn = EndValue - StartValue - NetCashFlow.
C29_NetCashFlow ==
  (call.op = "PeriodReturns" /\ call.err = "") =>
    LET during == {i \in DOMAIN CashFlows :
                     /\ call.startDate < CashFlows[i].Date
                     /\ CashFlows[i].Date <= call.endDate}
    IN  /\ call.pr.NetCashFlow
             = SumOver([i \in during |-> CashFlows[i].Amount], during)
        /\ call.pr.AbsoluteReturn
             = call.pr.EndValue - call.pr.StartValue - call.pr.NetCashFlow

\* C29 witness: a successful PeriodReturns over a period with a cash flow
\* dated at its start and another dated at its end, of which the net cash
\* flow holds the second only.
C29_Witness ==
  /\ call.op = "PeriodReturns" /\ call.err = ""
  /\ \E i, j \in DOMAIN CashFlows :
       /\ CashFlows[i].Date = call.startDate
       /\ CashFlows[j].Date = call.endDate
       /\ call.pr.NetCashFlow = CashFlows[j].Amount
       /\ CashFlows[i].Amount # 0

\* the step dates start, start + interval, ... <= end; the periods asked
\* about are shorter than a month, of which start is the only step date
StepDates(startDate, endDate, interval) ==
  LET every == IF interval = Daily THEN TicksPerDay
               ELSE DaysPerWeek * TicksPerDay
  IN  IF interval = Monthly THEN {startDate}
      ELSE {d \in startDate..endDate : (d - startDate) % every = 0}

\* Snapshot(d) succeeds (C25)
SnapshotSucceeds(d) ==
  \A c \in CommodityNames : LotsHeld(c, d) # {} => PricedAt(c, d)

\* C30: BuildTimeSeries(start, end, interval) returns an error iff start is
\* not strictly before end; otherwise the portfolio value series has a
\* point for exactly the step dates at which Snapshot succeeds, in
\* ascending order, and the step dates at which it fails are skipped.
C30_SkipsFailedSnapshots ==
  call.op = "BuildTimeSeries" =>
    /\ call.err # "" <=> ~(call.startDate < call.endDate)
    /\ call.err = "" =>
         LET kept == {d \in StepDates(call.startDate, call.endDate,
                                      call.interval) : SnapshotSucceeds(d)}
             points == call.pts.Value
         IN  /\ Len(points) = Cardinality(kept)
             /\ {points[i].Date : i \in DOMAIN points} = kept
             /\ \A i, j \in DOMAIN points :
                  i < j => points[i].Date < points[j].Date

\* C30 witness: a BuildTimeSeries that returned a value series with a point
\* while Snapshot fails at one of its step dates.
C30_Witness ==
  /\ call.op = "BuildTimeSeries" /\ call.err = ""
  /\ call.pts.Value # <<>>
  /\ \E d \in StepDates(call.startDate, call.endDate, call.interval) :
       ~SnapshotSucceeds(d)

\* C31: every point of the realized-gain series of a successful
\* BuildTimeSeries has as its value the sum of RealizedGain over the
\* disposal records of the registry dated on or before the point's date.
C31_RealizedGainToDate ==
  (call.op = "BuildTimeSeries" /\ call.err = "") =>
    \A i \in DOMAIN call.pts.RealizedGain :
      LET point == call.pts.RealizedGain[i]
          counted == {k \in DOMAIN Disposals :
                        Disposals[k].DisposalDate <= point.Date}
      IN  point.Value =
            RSumOver([k \in DOMAIN Disposals |-> Disposals[k].RealizedGain],
                     counted)

\* C31 witness: a realized-gain series with a point before the one disposal
\* of the registry, worth nothing, and a point after it, worth its gain.
C31_Witness ==
  /\ call.op = "BuildTimeSeries" /\ call.err = ""
  /\ Len(Disposals) = 1
  /\ Disposals[1].RealizedGain # RInt(0)
  /\ \E i, j \in DOMAIN call.pts.RealizedGain :
       /\ call.pts.RealizedGain[i].Date < Disposals[1].DisposalDate
       /\ call.pts.RealizedGain[i].Value = RInt(0)
       /\ call.pts.RealizedGain[j].Date >= Disposals[1].DisposalDate
       /\ call.pts.RealizedGain[j].Value = Disposals[1].RealizedGain

\* the files the entries of a ledger reference, as validateMetadata counts
\* them (lines 752-806)
ReferencedFiles(E) ==
  UNION {{Meta(E[i], "file"), Meta(E[i], "fileTwo")} \ {""} :
           i \in {k \in DOMAIN E : /\ Meta(E[k], "file") # ""
                                   /\ Meta(E[k], "duplicate") # "true"}}

\* C32: with strict mode on and metadata validation not disabled, an invoice
\* PDF that no entry references makes the load fail; without strict mode the
\* load does not fail for it.
C32_UnreferencedInvoiceFails ==
  /\ (pc = "done" /\ cfg.Strict /\ ~cfg.DisableMetadata)
       => InvoicePDFs \subseteq ReferencedFiles(Entries)
  /\ (pc = "error" /\ ~cfg.Strict)
       => err.msg # "file not referenced in ledger"

\* C33: the Disposals list of the registry is non-decreasing by disposal
\* date while a ledger is loaded and in the ledger New returns, and a step
\* only appends to it: the records it held stay, in their places, unchanged.
C33_Step ==
  /\ Len(Disposals') >= Len(Disposals)
  /\ SubSeq(Disposals', 1, Len(Disposals)) = Disposals
C33_DisposalsChronological ==
  /\ [](\A i, j \in DOMAIN Disposals :
          i < j => Disposals[i].DisposalDate <= Disposals[j].DisposalDate)
  /\ [][C33_Step]_vars

\* C33 witness: a returned ledger with disposal records of two dates.
C33_Witness ==
  /\ pc = "done"
  /\ \E i, j \in DOMAIN Disposals :
       Disposals[i].DisposalDate < Disposals[j].DisposalDate

\* C37: every disposal record, while a ledger is loaded and in the ledger
\* New returns, draws from a lot acquired no later than the disposal.
C37_AcquiredBeforeDisposed ==
  \A i \in DOMAIN Disposals :
    lots[Disposals[i].Lot].AcquisitionDate <= Disposals[i].DisposalDate

\* C37 witness: a returned ledger with a record that draws from a lot
\* acquired before the disposal, by an entry dated by its effective date.
C37_Witness ==
  /\ pc = "done"
  /\ \E i \in DOMAIN Disposals :
       lots[Disposals[i].Lot].AcquisitionDate < Disposals[i].DisposalDate
  /\ \E k \in DOMAIN Entries : Entries[k].EffectiveDate # ZeroTime

\* C34: when metadata handling is not disabled, every entry of a ledger New
\* returned has passed procMetadata, whether a blank line or the end of the
\* file ended it: procMetadata finds no fault with it.
C34_EveryEntryValidated ==
  (pc = "done" /\ ~cfg.DisableMetadata) =>
    \A i \in DOMAIN Entries :
      procMetadata(Entries[i], cfg.Strict, cfg.AddMissingHashes).err = ""

\* the lots of commodity c acquired on or before d
LotsAcquired(c, d) ==
  {i \in DOMAIN lots : lots[i].Commodity = c /\ lots[i].AcquisitionDate <= d}

\* the quantity disposed of from lot i by the records K of Disposals
DisposedOf(i, K) ==
  SumOver([k \in DOMAIN Disposals |-> Disposals[k].QuantityDisposed],
          {k \in K : Disposals[k].Lot = i})

\* Snapshot reports the quantities held[i] of the lots of commodity c
\* acquired on or before its date: their sum as the quantity of the holding,
\* at the lots' unit costs as its cost basis and at the price of the date as
\* its market value, and no holding when the sum is 0
Reports(c, held) ==
  LET acquired == LotsAcquired(c, call.date)
      quantity == SumOver(held, acquired)
  IN  IF c \in DOMAIN call.snapshot.Holdings
      THEN LET h == call.snapshot.Holdings[c]
           IN  /\ h.TotalQuantity = quantity
               /\ h.TotalCostBasis
                    = RSumOver([i \in acquired |->
                                  RMul(RInt(held[i]), lots[i].CostPerUnit)],
                               acquired)
               /\ h.MarketValue = quantity * LatestPrice(c, call.date)
      ELSE quantity = 0

\* C35 as stated: a successful Snapshot(d) reports the holdings as of d, a
\* disposal dated after d reducing neither quantity nor cost basis nor
\* market value: a lot acquired on or before d counts with its original
\* quantity less what the records dated on or before d disposed of.
C35_AsOfDate ==
  (call.op = "Snapshot" /\ call.err = "") =>
    \A c \in CommodityNames :
      Reports(c, [i \in DOMAIN lots |->
                    lots[i].OriginalQuantity
                      - DisposedOf(i, {k \in DOMAIN Disposals :
                          Disposals[k].DisposalDate <= call.date})])

\* C35 as amended: a successful Snapshot(d) reports the lots acquired on or
\* before d at what remains of them at the time of the call: a lot counts
\* with its original quantity less what all records of the registry disposed
\* of, those dated after d included.
C35_CurrentRemaining ==
  (call.op = "Snapshot" /\ call.err = "") =>
    \A c \in CommodityNames :
      Reports(c, [i \in DOMAIN lots |->
                    lots[i].OriginalQuantity
                      - DisposedOf(i, DOMAIN Disposals)])

\* C35 witness: a successful Snapshot(d) with a holding of a lot that a
\* disposal dated after d has reduced.
C35_Witness ==
  /\ call.op = "Snapshot" /\ call.err = ""
  /\ \E k \in DOMAIN Disposals :
       /\ Disposals[k].DisposalDate > call.date
       /\ lots[Disposals[k].Lot].AcquisitionDate <= call.date
       /\ lots[Disposals[k].Lot].Commodity \in DOMAIN call.snapshot.Holdings

\* C36: in every state of the registry, each lot's OriginalQuantity less its
\* RemainingQuantity is the sum of QuantityDisposed over the records of
\* Disposals that reference the lot, and every record has QuantityDisposed
\* > 0.
C36_QuantityConserved ==
  /\ \A i \in DOMAIN lots :
       lots[i].OriginalQuantity - lots[i].RemainingQuantity
         = DisposedOf(i, DOMAIN Disposals)
  /\ \A k \in DOMAIN Disposals : Disposals[k].QuantityDisposed > 0

\* C36 witness: a registry in which one lot is sold out through more than
\* one record, another lot of the commodity is partly disposed of and a
\* third lot is untouched.
C36_Witness ==
  \E i, j, u \in DOMAIN lots :
    /\ lots[i].RemainingQuantity = 0
    /\ Cardinality({k \in DOMAIN Disposals : Disposals[k].Lot = i}) > 1
    /\ lots[j].Commodity = lots[i].Commodity
    /\ 0 < lots[j].RemainingQuantity
    /\ lots[j].RemainingQuantity < lots[j].OriginalQuantity
    /\ lots[u].RemainingQuantity = lots[u].OriginalQuantity

\* C38: PeriodReturns never divides by zero: when the denominator
\* StartValue + weightedCashFlow is <= 0 and AbsoluteReturn is not 0, so
\* that the fallback AbsoluteReturn / NetCashFlow is used, NetCashFlow is not
\* 0, and the Return of the result is a finite number.
C38_NeverDividesByZero ==
  (call.op = "PeriodReturns" /\ call.err = "") =>
    /\ (/\ ~RLess(RInt(0),
                  RAdd(RInt(call.pr.StartValue),
                       WeightedCashFlow(CashFlows, call.startDate,
                                        call.endDate)))
        /\ call.pr.AbsoluteReturn # 0)
         => call.pr.NetCashFlow # 0
    /\ call.pr.Return[2] # 0

\* New reads a top-level ';' line after the header-comment section
C39_CommentRead ==
  /\ pc = "New" /\ ln' = ln + 1
  /\ lastLine'.kind = "comment"
  /\ state > parseHeaderComments

\* C39 as stated: a top-level ';' line after the header-comment section is
\* skipped without changing the parser state, so that the declaration and
\* price lines that follow it in their section order are still accepted.
C39_CommentKeepsState ==
  [][C39_CommentRead => (state' = state /\ pc' = "New")]_vars

\* C39 as amended: a top-level ';' line after the header-comment section is
\* skipped, nothing being recorded for it, but it moves the parser to the
\* entries state, and a commodity, account, tag or P line that follows it
\* makes New fail as an entry header whose date cannot be parsed.
C39_Step ==
  /\ C39_CommentRead =>
       /\ state' = parseEntries /\ pc' = "New"
       /\ UNCHANGED <<declVars, Entries, err>>
  /\ (/\ pc = "New" /\ ln' = ln + 1
      /\ lastLine.kind = "comment" /\ state > parseHeaderComments
      /\ lastLine'.kind \in DeclKinds)
       => /\ pc' = "error" /\ err'.msg = "cannot parse date"
          /\ UNCHANGED <<declVars, Entries>>
C39_CommentEndsDeclarations == [][C39_Step]_vars

\* C39 witness: after a commodity declaration a ';' line was read in the
\* commodities section and a further commodity line after it was rejected.
C39_Witness ==
  /\ pc = "error" /\ err.msg = "cannot parse date"
  /\ lastLine.kind = "commodity" /\ lastLine.value \notin Commodities
  /\ Commodities # {}
  /\ state = parseEntries /\ Entries = <<>>
  /\ Accounts = {} /\ Tags = {}
  /\ \A c \in CommodityNames : Prices[c] = <<>>
  /\ ln = 3

\* procHash's errors for a missing and for a mismatched hash
HashErrors == {"no hash for file", "hash mismatch for file"}

\* C40: an entry whose metadata has no `file` key is never rejected by hash
\* validation: when New fails because procMetadata reports a missing or
\* mismatched hash, the entry being read references a file.
C40_HashOnlyWithFile ==
  (pc = "error" /\ err.msg \in HashErrors) => "file" \in DOMAIN e.Metadata
====
